---- MODULE Spec2Model ----
(***************************************************************************)
(* Warehouse bot: the conversation state machine of bot.py, the permission *)
(* gate of services/permissions.py and the record / blob store calls of    *)
(* services/sheets_handler.py and services/drive_handler.py.               *)
(*                                                                         *)
(* One update of one user is one step.  A message text is a sequence of    *)
(* characters (one-character strings); a keyboard label is a sequence of   *)
(* one glyph that is no digit and no blank.  A staged file is the string   *)
(* of its path below TEMP_PHOTOS_DIR.                                      *)
(***************************************************************************)
EXTENDS Integers, Sequences, FiniteSets, TLC

VARIABLES
    state,        \* ConversationHandler: user id -> conversation state
    user_data,    \* context.user_data: user id -> draft dictionary
    disk,         \* the files in config.TEMP_PHOTOS_DIR
    clock,        \* datetime.now(), in ticks of the finest timestamp taken (%f)
    store,        \* the rows appended to each sheet of the Record Store
    users_sheet,  \* the user table: telegram id -> raw cells
    turn,         \* the last processed update and what the handler answered
    scenario,     \* what the operator does in this run (see Scenarios)
    queue,        \* Application.update_queue: the updates not yet taken
    inflight,     \* the handler invocations that began and did not return
    refs          \* the reference tables, SheetsHandler._cache / _cache_ts and
                  \* the fields of the PermissionsManager (see ReloadSpec)

vars == <<state, user_data, disk, clock, store, users_sheet, turn, scenario,
          queue, inflight, refs>>

(***************************************************************************)
(* config.py                                                               *)
(***************************************************************************)
MAX_PHOTOS_PER_POSITION == 2
MAX_PHOTOS_NEW_PRODUCT == 2
MAX_PHOTOS_DOCUMENT == 2
MAX_PHOTOS_VEHICLE == 2
MAX_POSITIONS_PER_OPERATION == 2
MAX_QUANTITY == 20
MAX_COMMENT_LENGTH == 3

\* The clock stops a run after MaxClock stagings and saves; a run that mixes
\* all the workflows stops after MixedClock of them.
MaxClock == 2
MixedClock == 0

\* the ticks of the clock that fall into one second
TicksPerSecond == 2

(***************************************************************************)
(* utils/localization.py: the labels.  Only their identity matters.        *)
(***************************************************************************)
BTN == [cancel |-> <<"[cancel]">>, photo_done |-> <<"[photo_done]">>,
        next_position |-> <<"[next_position]">>, finish |-> <<"[finish]">>,
        add_comment |-> <<"[add_comment]">>, save |-> <<"[save]">>,
        skip |-> <<"[skip]">>, no_comment |-> <<"[no_comment]">>,
        qty_custom |-> <<"[qty_custom]">>,
        counterparty_other |-> <<"[counterparty_other]">>,
        vehicle_auto |-> <<"[vehicle_auto]">>,
        vehicle_custom |-> <<"[vehicle_custom]">>]

MENU == [help |-> <<"[help]">>, receipt |-> <<"[receipt]">>, issue |-> <<"[issue]">>,
         new_product |-> <<"[new_product]">>, documents |-> <<"[documents]">>,
         vehicles |-> <<"[vehicles]">>, history |-> <<"[history]">>]

VEHICLE_OPS == [entry |-> <<"[vehicle_in]">>, exit |-> <<"[vehicle_out]">>]
DOCUMENT_TYPES == [incoming |-> <<"[doc_incoming]">>]
PRODUCT_TYPES == [goods |-> <<"[type_goods]">>]
HISTORY_FILTERS == [all |-> <<"[filter_all]">>, issue |-> <<"[filter_issue]">>]
HISTORY_PERIODS == [today |-> <<"[period_today]">>, week |-> <<"[period_week]">>]

Values(r) == {r[k] : k \in DOMAIN r}
Range(s) == {s[i] : i \in DOMAIN s}

\* The decorative prefixes of the displayed choices: "<factory> " and "<pin> ".
FACTORY == <<"<factory>", " ">>
PIN == <<"<pin>", " ">>

(***************************************************************************)
(* The inputs of the model.                                                *)
(***************************************************************************)
QtyTexts == { <<"1", "2">>, <<"-", "1", "2">>, <<"0">>, <<"9", "9">>,
              <<"a", "b", "c">> }
Name == FACTORY \o <<"A", "c">>
Note == <<"n", "o", "t", "e", "s">>
\* a typed counterparty with the factory sign inside the name
Typed == <<"A">> \o FACTORY \o <<"c">>

\* the texts tried in a state: the labels of its keyboard, a label of another
\* keyboard where the handler treats it differently, and free text
Inputs(st) ==
    CASE st = "MAIN_MENU" -> scenario.menu \cup {MENU.help, Note}
      [] st = "SELECT_COUNTERPARTY" -> {BTN.cancel, BTN.counterparty_other, Name, Typed}
      [] st = "SELECT_PLACE" -> {BTN.cancel, PIN \o <<"A", "c">>}
      [] st \in {"POSITION_PHOTOS", "NEW_PRODUCT_PHOTOS", "DOC_PHOTOS", "VEHICLE_PHOTOS"}
           -> {BTN.cancel, BTN.photo_done, Note}
      [] st = "POSITION_QTY" -> {BTN.cancel, BTN.qty_custom} \cup QtyTexts
      [] st = "OPERATION_SUMMARY" -> {BTN.cancel, BTN.next_position, BTN.finish, Note}
      [] st = "OPERATION_GENERAL_COMMENT" -> {BTN.cancel, BTN.add_comment, BTN.save, Note}
      [] st \in {"VEHICLE_COMMENT", "INVOICE_COMMENT", "DOC_COMMENT"}
           -> {BTN.cancel, BTN.add_comment, BTN.skip, BTN.no_comment, Note}
      [] st = "VEHICLE_OP_TYPE" -> {BTN.cancel, Note} \cup Values(VEHICLE_OPS)
      [] st = "VEHICLE_ID" -> {BTN.cancel, BTN.vehicle_auto, BTN.vehicle_custom, Name}
      [] st = "NEW_PRODUCT_COMMENT" -> {BTN.cancel, Note}
      [] st = "NEW_PRODUCT_TYPE" -> {BTN.cancel, Note} \cup Values(PRODUCT_TYPES)
      [] st = "DOC_TYPE" -> {BTN.cancel, Note} \cup Values(DOCUMENT_TYPES)
      [] st = "DOC_COUNTERPARTY" -> {BTN.cancel, BTN.counterparty_other, BTN.skip, Name}
      [] st = "HISTORY_FILTER" -> {BTN.cancel, Note} \cup Values(HISTORY_FILTERS)
      [] st = "HISTORY_PERIOD" -> {BTN.cancel, Note} \cup Values(HISTORY_PERIODS)
      [] OTHER -> {Note}

\* document.file_name of an attachment, with its characters.
FileNames == {"inv.XLSX", "notes.txt", "noext"}
FileNameChars(n) ==
    CASE n = "inv.XLSX" -> <<"i", "n", "v", ".", "X", "L", "S", "X">>
      [] n = "notes.txt" -> <<"n", "o", "t", "e", "s", ".", "t", "x", "t">>
      [] OTHER -> <<"n", "o", "e", "x", "t">>

(***************************************************************************)
(* Python values and string methods.                                       *)
(***************************************************************************)
PyBoolean(b) == [t |-> "bool", b |-> b, s |-> ""]
PyString(s) == [t |-> "str", b |-> FALSE, s |-> s]

\* str(v)
str(v) == IF v.t = "bool" THEN (IF v.b THEN "True" ELSE "False") ELSE v.s

\* bool(s) of a string: only the empty string is false
bool(s) == s # ""

isdigit(c) == c \in {"0", "1", "2", "3", "4", "5", "6", "7", "8", "9"}

DigitValue(c) ==
    CASE c = "0" -> 0 [] c = "1" -> 1 [] c = "2" -> 2 [] c = "3" -> 3
      [] c = "4" -> 4 [] c = "5" -> 5 [] c = "6" -> 6 [] c = "7" -> 7
      [] c = "8" -> 8 [] OTHER -> 9

\* int(s) of a non-empty string of digits
RECURSIVE int(_)
int(s) == IF s = <<>> THEN 0
          ELSE 10 * int(SubSeq(s, 1, Len(s) - 1)) + DigitValue(s[Len(s)])

Digit(n) == CASE n = 0 -> "0" [] n = 1 -> "1" [] n = 2 -> "2" [] n = 3 -> "3"
              [] n = 4 -> "4" [] n = 5 -> "5" [] n = 6 -> "6" [] n = 7 -> "7"
              [] n = 8 -> "8" [] OTHER -> "9"

\* a zero-padded two-digit field of strftime (%m, %d, %H, %M, %S)
pad2(n) == <<Digit((n \div 10) % 10), Digit(n % 10)>>

\* datetime.now() at the resolution of %S: a day of November 2026 and a
\* second of that day
Now(c) == [day |-> 10, sec |-> c \div TicksPerSecond]

\* now.strftime("%Y-%m-%d")
strftime_date(now) == <<"2", "0", "2", "6", "-", "1", "1", "-">> \o pad2(now.day)

\* now.strftime("%H:%M:%S")
strftime_time(now) ==
    pad2(now.sec \div 3600) \o <<":">> \o pad2((now.sec \div 60) % 60) \o <<":">>
    \o pad2(now.sec % 60)

\* ord(c) of the characters of a date, a time and the blank between them
ord(c) == IF isdigit(c) THEN 48 + DigitValue(c)
          ELSE IF c = " " THEN 32 ELSE IF c = "-" THEN 45 ELSE 58

\* a < b of two strings
RECURSIVE str_lt(_, _)
str_lt(a, b) ==
    IF b = <<>> THEN FALSE
    ELSE IF a = <<>> THEN TRUE
    ELSE IF a[1] # b[1] THEN ord(a[1]) < ord(b[1])
    ELSE str_lt(Tail(a), Tail(b))

\* s.strip()
RECURSIVE strip(_)
strip(s) == IF s = <<>> THEN s
            ELSE IF s[1] = " " THEN strip(Tail(s))
            ELSE IF s[Len(s)] = " " THEN strip(SubSeq(s, 1, Len(s) - 1))
            ELSE s

\* s[:n]
Prefix(s, n) == SubSeq(s, 1, IF Len(s) < n THEN Len(s) ELSE n)

StartsWith(s, p) == Len(s) >= Len(p) /\ SubSeq(s, 1, Len(p)) = p

\* s.replace(p, "")
RECURSIVE replace(_, _)
replace(s, p) ==
    IF s = <<>> THEN s
    ELSE IF StartsWith(s, p) THEN replace(SubSeq(s, Len(p) + 1, Len(s)), p)
    ELSE <<s[1]>> \o replace(Tail(s), p)

lower(c) == CASE c = "X" -> "x" [] c = "L" -> "l" [] c = "S" -> "s" [] OTHER -> c

\* file_name.lower().split('.')[-1] if '.' in file_name else ''
RECURSIVE LastSegment(_)
LastSegment(s) == IF s = <<>> \/ s[Len(s)] = "." THEN <<>>
                  ELSE LastSegment(SubSeq(s, 1, Len(s) - 1)) \o <<lower(s[Len(s)])>>

Extension(n) == IF "." \in Range(FileNameChars(n)) THEN LastSegment(FileNameChars(n))
                ELSE <<>>

(***************************************************************************)
(* services/sheets_handler.py: reading the user table.                     *)
(***************************************************************************)
\* _to_bool on a cell that _to_number left a string
to_bool(cell) ==
    IF cell \in {"TRUE", "true", "yes", "y"} THEN PyBoolean(TRUE)
    ELSE IF cell \in {"FALSE", "false", "no", "n"} THEN PyBoolean(FALSE)
    ELSE PyString(cell)

normalize_cell(cell) == to_bool(cell)

Columns == {"username", "warehouse", "documents", "vehicles", "invoices", "admin",
            "active"}

\* _read_table_as_dicts / get_users: the rows of the user table by telegram id
get_users == [tid \in DOMAIN users_sheet |->
                [c \in Columns |-> normalize_cell(users_sheet[tid][c])]]

(***************************************************************************)
(* services/permissions.py                                                 *)
(***************************************************************************)
\* _normalize_row: every value becomes str(value)
normalize_row(row) == [c \in DOMAIN row |-> PyString(str(row[c]))]

\* `active is False` in _load_all
is_False(v) == v.t = "bool" /\ ~v.b

\* _load_all: users_map of the rows get_users returned
users_map(rows) ==
    LET kept == {tid \in DOMAIN rows : ~is_False(normalize_row(rows[tid]).active)}
    IN  [tid \in kept |-> normalize_row(rows[tid])]

\* _load_all: self.users
load_all == users_map(get_users)

is_registered(tid) == tid \in DOMAIN load_all

\* get_user(tid).get(column), for a registered user
user_get(tid, column) == load_all[tid][column].s

can_access_warehouse(tid) == is_registered(tid) /\ bool(user_get(tid, "warehouse"))
can_access_documents(tid) == is_registered(tid) /\ bool(user_get(tid, "documents"))
can_access_vehicles(tid) == is_registered(tid) /\ bool(user_get(tid, "vehicles"))
can_access_invoices(tid) == is_registered(tid) /\ bool(user_get(tid, "invoices"))

\* config.ADMIN_USERNAME
ADMIN_USERNAME == "serg"

\* is_admin: the user's name is the administrator's or bool(admin_flag)
is_admin(tid) ==
    /\ is_registered(tid)
    /\ \/ user_get(tid, "username") = ADMIN_USERNAME
       \/ bool(user_get(tid, "admin"))

get_username(tid) ==
    IF is_registered(tid) /\ bool(user_get(tid, "username"))
    THEN user_get(tid, "username") ELSE "unknown"

(***************************************************************************)
(* context.user_data: a dictionary.  `has` is its key set; a key that is   *)
(* absent holds the default below.                                         *)
(***************************************************************************)
NoPosition == [number |-> 0, temp_photos |-> <<>>, quantity |-> 0]

EmptyUD == [has |-> {}, mode |-> "", op_type |-> "", employee |-> "",
            positions |-> <<>>, current_position |-> NoPosition,
            temp_photos |-> <<>>, counterparty |-> <<>>,
            vehicle_op_type |-> "", vehicle_id |-> <<>>, comment |-> <<>>,
            general_comment |-> <<>>, doc_type |-> <<>>, product_type |-> <<>>,
            filename |-> "", file_path |-> "", history_filter |-> ""]

Has(ud, k) == k \in ud.has
Put(ud, k, v) == [ud EXCEPT !.has = @ \cup {k}, ![k] = v]

(***************************************************************************)
(* What a handler does: the state it returns, the dictionary and the       *)
(* staging directory it leaves, its last reply, whether an exception left  *)
(* the handler, the Record Store calls it made and the clock ticks it used.*)
(***************************************************************************)
Result(st, ud, dsk, rep) ==
    [state |-> st, ud |-> ud, disk |-> dsk, reply |-> rep, raised |-> FALSE,
     calls |-> <<>>, ticks |-> 0, shown |-> <<>>,
     uploads |-> <<>>]

\* an exception (KeyError) leaves the handler: no state is returned
Raise(ud, dsk, rep) ==
    [state |-> "", ud |-> ud, disk |-> dsk, reply |-> rep, raised |-> TRUE,
     calls |-> <<>>, ticks |-> 0, shown |-> <<>>,
     uploads |-> <<>>]

Staged(r) == [r EXCEPT !.ticks = 1]

\* datetime.now().strftime("%Y%m%d_%H%M%S_%f") in a staged file's name
StagedPath(prefix) == prefix \o "_" \o ToString(clock) \o ".jpg"

(***************************************************************************)
(* bot.py: commands and the main menu                                      *)
(***************************************************************************)
\* the paths _cleanup_temp_photos unlinks
cleanup_temp_photos(ud) ==
    Range(ud.temp_photos)
    \cup (IF Has(ud, "current_position") THEN Range(ud.current_position.temp_photos)
          ELSE {})
    \cup UNION {Range(ud.positions[i].temp_photos) : i \in DOMAIN ud.positions}

start(u, ud) ==
    IF ~is_registered(u)
    THEN Result("END", EmptyUD, disk \ cleanup_temp_photos(ud), "unknown_user")
    ELSE Result("MAIN_MENU", EmptyUD, disk \ cleanup_temp_photos(ud), "welcome")

cmd_menu(u, ud) ==
    IF ~is_registered(u)
    THEN Result("END", ud, disk, "unknown_user")
    ELSE Result("MAIN_MENU", EmptyUD, disk \ cleanup_temp_photos(ud), "welcome")

\* /reload: force_refresh loads the tables again
cmd_reload(u, ud) ==
    IF ~is_admin(u) THEN Result("", ud, disk, "admin_only")
    ELSE Result("", ud, disk, "cache_updated")

\* /cleanup: every file of TEMP_PHOTOS_DIR is unlinked
cmd_cleanup(u, ud) ==
    IF ~is_admin(u) THEN Result("", ud, disk, "admin_only")
    ELSE Result("", ud, {}, "cleanup_done")

cancel(u, ud) ==
    Result("MAIN_MENU", EmptyUD, disk \ cleanup_temp_photos(ud), "operation_cancelled")

global_fallback(u, ud) ==
    IF ~is_registered(u)
    THEN Result("", ud, disk, "unknown_user")
    ELSE Result("", EmptyUD, disk \ cleanup_temp_photos(ud), "welcome")

show_help(u, ud) == Result("MAIN_MENU", ud, disk, "help_text")

start_vehicles(u, ud) ==
    Result("VEHICLE_OP_TYPE",
           Put(Put(ud, "mode", "vehicles"), "employee", get_username(u)),
           disk, "select_vehicle_op")

start_receipt(u, ud) ==
    Result("SELECT_COUNTERPARTY",
           Put(Put(Put(Put(ud, "mode", "receipt"), "op_type", "receipt"),
                   "employee", get_username(u)), "positions", <<>>),
           disk, "select_counterparty")

start_issue(u, ud) ==
    Result("SELECT_PLACE",
           Put(Put(Put(Put(ud, "mode", "issue"), "op_type", "issue"),
                   "employee", get_username(u)), "positions", <<>>),
           disk, "select_place")

start_new_product(u, ud) ==
    Result("NEW_PRODUCT_PHOTOS",
           Put(Put(Put(ud, "mode", "new_product"), "employee", get_username(u)),
               "temp_photos", <<>>),
           disk, "photo_instructions")

start_documents(u, ud) ==
    Result("DOC_TYPE",
           Put(Put(ud, "mode", "documents"), "employee", get_username(u)),
           disk, "select_doc_type")

start_history(u, ud) == Result("HISTORY_FILTER", ud, disk, "select_filter")

handle_main_menu(u, ud, text) ==
    LET denied == Result("MAIN_MENU", ud, disk, "access_denied") IN
    IF text = MENU.help THEN show_help(u, ud)
    ELSE IF text = MENU.receipt
    THEN (IF ~can_access_warehouse(u) THEN denied ELSE start_receipt(u, ud))
    ELSE IF text = MENU.issue
    THEN (IF ~can_access_warehouse(u) THEN denied ELSE start_issue(u, ud))
    ELSE IF text = MENU.new_product
    THEN (IF ~can_access_warehouse(u) THEN denied ELSE start_new_product(u, ud))
    ELSE IF text = MENU.documents
    THEN (IF ~can_access_documents(u) THEN denied ELSE start_documents(u, ud))
    ELSE IF text = MENU.vehicles
    THEN (IF ~can_access_vehicles(u) THEN denied ELSE start_vehicles(u, ud))
    ELSE IF text = MENU.history THEN start_history(u, ud)
    ELSE Result("MAIN_MENU", ud, disk, "welcome")

(***************************************************************************)
(* The stores.  A finalize draws the outcome of its Blob Store upload      *)
(* (drv: "ok", or "error" when upload_* caught an exception and returned   *)
(* []) and of its Record Store append (app: "ok" = True, "fail" = False,   *)
(* "exc" = an exception other than HttpError left the call).               *)
(***************************************************************************)
Outcomes == [drv : {"ok", "error"}, app : {"ok", "fail", "exc"}]

Link(path) == "https://drive/" \o path

\* drive_handler.upload_*_photos / upload_file: one link per photo, "" for a
\* file that is not on disk; [] when the upload raised
upload_photos(paths, dsk, drv) ==
    IF drv = "error" THEN <<>>
    ELSE [i \in 1..Len(paths) |-> IF paths[i] \in dsk THEN Link(paths[i]) ELSE ""]

\* drive_handler.upload_invoice
upload_invoice(path, dsk, drv) ==
    IF drv = "error" \/ path \notin dsk THEN "" ELSE Link(path)

Row(sheet, type, target, label, op_id, pos, qty, links, comment, employee, filename) ==
    [sheet |-> sheet, type |-> type, target |-> target, label |-> label,
     op_id |-> op_id, pos |-> pos, qty |-> qty, links |-> links,
     comment |-> comment, employee |-> employee, filename |-> filename]

\* one call of sheets_handler.append_movement / add_*
Call(row, first, result) == [row |-> row, first |-> first, result |-> result]

\* what the bot reads back of an appended row (get_today_vehicle_count,
\* get_history): its sheet, date, time, type and counterparty / vehicle id;
\* and the Operation_ID column of the sheet
Stored(row, now) ==
    [sheet |-> row.sheet, date |-> strftime_date(now), time |-> strftime_time(now),
     type |-> row.type, target |-> row.target, op_id |-> row.op_id]

\* _append_values: the rows the Record Store holds after the calls
RECURSIVE Persist(_, _, _)
Persist(rows, calls, now) ==
    IF calls = <<>> THEN rows
    ELSE Persist(IF calls[1].result = "ok" THEN Append(rows, Stored(calls[1].row, now))
                 ELSE rows,
                 Tail(calls), now)

SheetRows(sheet) == SelectSeq(store, LAMBDA r : r.sheet = sheet)

\* sheets_handler.get_today_vehicle_count
get_today_vehicle_count ==
    Len(SelectSeq(SheetRows("vehicles"),
                  LAMBDA r : r.date = strftime_date(Now(clock))))

\* the record get_history makes of a row
HistoryRecord(r) == [type |-> r.type, date |-> r.date, time |-> r.time,
                     details |-> r.target]

\* the key of records.sort: f"{date} {time}"
sort_key(rec) == rec.date \o <<" ">> \o rec.time

\* a sort that leaves the later records last
sort_forward(a, b) == str_lt(sort_key(b), sort_key(a))

\* reverse=True: a stays before b unless its key is the smaller one
sort_reverse(a, b) == str_lt(sort_key(a), sort_key(b))

\* records.sort(key=..., reverse=True), a stable sort
RECURSIVE sorted(_)
sorted(recs) ==
    IF recs = <<>> THEN recs
    ELSE LET rest == sorted(SubSeq(recs, 1, Len(recs) - 1))
             x == recs[Len(recs)]
             k == Cardinality({i \in DOMAIN rest : ~sort_reverse(rest[i], x)})
         IN  SubSeq(rest, 1, k) \o <<x>> \o SubSeq(rest, k + 1, Len(rest))

Records(rows) == [i \in DOMAIN rows |-> HistoryRecord(rows[i])]

\* sheets_handler.get_history; period_key only sets start_date, which is
\* never read
get_history(filter_key, period_key, limit) ==
    LET movements == IF filter_key \in {"all", "receipt", "issue"}
                     THEN SelectSeq(SheetRows("movements"),
                                    LAMBDA r : /\ filter_key = "receipt" => r.type = "receipt"
                                               /\ filter_key = "issue" => r.type = "issue")
                     ELSE <<>>
        docs == IF filter_key \in {"all", "documents"} THEN SheetRows("documents")
                ELSE <<>>
        vehicles == IF filter_key \in {"all", "vehicles"} THEN SheetRows("vehicles")
                    ELSE <<>>
    IN  Prefix(sorted(Records(movements \o docs \o vehicles)), limit)

\* a finalize whose exception leaves the handler instead of being caught
Finalized_uncaught(dsk, rep, calls) ==
    [state |-> IF rep = "error_generic" THEN "" ELSE "MAIN_MENU",
     ud |-> EmptyUD, disk |-> dsk, reply |-> rep,
     raised |-> rep = "error_generic", calls |-> calls, ticks |-> 1, shown |-> <<>>,
     uploads |-> <<>>]

\* a finalize that repeats every append that did not succeed
Finalized_retry(dsk, rep, calls) ==
    [state |-> "MAIN_MENU", ud |-> EmptyUD, disk |-> dsk, reply |-> rep,
     raised |-> FALSE,
     calls |-> calls \o SelectSeq(calls, LAMBDA c : c.result # "ok"),
     ticks |-> 1, shown |-> <<>>, uploads |-> <<>>]

\* the end of every finalize: context.user_data.clear(); return MAIN_MENU
Finalized(dsk, rep, calls) ==
    [state |-> "MAIN_MENU", ud |-> EmptyUD, disk |-> dsk, reply |-> rep,
     raised |-> FALSE, calls |-> calls, ticks |-> 1, shown |-> <<>>,
     uploads |-> <<>>]

\* the reply of a finalize that tests the result of its append
ReplyOf(app) == CASE app = "ok" -> "operation_saved"
                  [] app = "fail" -> "error_google"
                  [] OTHER -> "error_generic"

\* the comment kept at its full length
final_comment_whole(text) ==
    IF text \in {BTN.skip, BTN.no_comment} THEN <<>> ELSE text

\* "" if text in [BTN["skip"], BTN["no_comment"]] else text[:MAX_COMMENT_LENGTH]
final_comment(text) ==
    IF text \in {BTN.skip, BTN.no_comment} THEN <<>> ELSE Prefix(text, MAX_COMMENT_LENGTH)

(***************************************************************************)
(* bot.py: vehicles                                                        *)
(***************************************************************************)
handle_vehicle_op_type(u, ud, text) ==
    IF text = BTN.cancel THEN cancel(u, ud)
    ELSE IF text \notin Values(VEHICLE_OPS)
    THEN Result("VEHICLE_OP_TYPE", ud, disk, "choose")
    ELSE Result("VEHICLE_ID",
                Put(ud, "vehicle_op_type",
                    IF text = VEHICLE_OPS.entry THEN "entry" ELSE "exit"),
                disk, "enter_vehicle_id")

\* the auto id numbered with the count itself
AutoVehicleId_same(count) == <<"vehicle#", ToString(count)>>

\* f"Машина №{count + 1}"
AutoVehicleId(count) == <<"vehicle#", ToString(count + 1)>>

handle_vehicle_id(u, ud, text) ==
    IF text = BTN.cancel THEN cancel(u, ud)
    ELSE IF text = BTN.vehicle_custom THEN Result("VEHICLE_ID", ud, disk, "type_it")
    ELSE LET id == IF text = BTN.vehicle_auto
                   THEN AutoVehicleId(get_today_vehicle_count)
                   ELSE replace(text, FACTORY)
         IN  Result("VEHICLE_PHOTOS",
                    Put(Put(ud, "vehicle_id", id), "temp_photos", <<>>),
                    disk, "send_photo_vehicle")

\* the photo loop of handle_vehicle_photo / handle_new_product_photo /
\* handle_doc_photo: here, next, max, prefix are the state, the state after
\* the loop, the configured maximum and the staged file's prefix
\* photo_loop with the maximum tested after it has been passed
photo_loop_late(u, ud, upd, here, next, max, prefix) ==
    IF upd.text = BTN.cancel THEN cancel(u, ud)
    ELSE IF upd.text = BTN.photo_done
    THEN (IF ~Has(ud, "temp_photos") THEN Raise(ud, disk, "")
          ELSE IF ud.temp_photos = <<>> THEN Result(here, ud, disk, "need_photo")
          ELSE Result(next, ud, disk, "ask_next"))
    ELSE IF upd.kind = "photo"
    THEN LET fp == StagedPath(prefix)
             dsk == disk \cup {fp}
         IN  IF ~Has(ud, "temp_photos") THEN Staged(Raise(ud, dsk, ""))
             ELSE LET ud1 == Put(ud, "temp_photos", Append(ud.temp_photos, fp)) IN
                  IF Len(ud1.temp_photos) > max
                  THEN Staged(Result(next, ud1, dsk, "ask_next"))
                  ELSE Staged(Result(here, ud1, dsk, "photo_count"))
    ELSE Result(here, ud, disk, "send_photo")

photo_loop(u, ud, upd, here, next, max, prefix) ==
    IF upd.text = BTN.cancel THEN cancel(u, ud)
    ELSE IF upd.text = BTN.photo_done
    THEN (IF ~Has(ud, "temp_photos") THEN Raise(ud, disk, "")
          ELSE IF ud.temp_photos = <<>> THEN Result(here, ud, disk, "need_photo")
          ELSE Result(next, ud, disk, "ask_next"))
    ELSE IF upd.kind = "photo"
    THEN LET fp == StagedPath(prefix)
             dsk == disk \cup {fp}
         IN  IF ~Has(ud, "temp_photos") THEN Staged(Raise(ud, dsk, ""))
             ELSE LET ud1 == Put(ud, "temp_photos", Append(ud.temp_photos, fp)) IN
                  IF Len(ud1.temp_photos) >= max
                  THEN Staged(Result(next, ud1, dsk, "ask_next"))
                  ELSE Staged(Result(here, ud1, dsk, "photo_count"))
    ELSE Result(here, ud, disk, "send_photo")

handle_vehicle_photo(u, ud, upd) ==
    photo_loop(u, ud, upd, "VEHICLE_PHOTOS", "VEHICLE_COMMENT", MAX_PHOTOS_VEHICLE,
               "vehicle")

handle_vehicle_comment(u, ud, text, out) ==
    IF text = BTN.cancel THEN cancel(u, ud)
    ELSE IF text = BTN.add_comment THEN Result("VEHICLE_COMMENT", ud, disk, "enter_comment")
    ELSE
    LET comment == final_comment(text) IN
    IF ~({"temp_photos", "vehicle_id", "vehicle_op_type"} \subseteq ud.has)
    THEN Finalized(disk, "error_generic", <<>>)
    ELSE
    LET links == upload_photos(ud.temp_photos, disk, out.drv)
        dsk == disk \ Range(ud.temp_photos)
    IN  IF ~Has(ud, "employee") THEN Finalized(dsk, "error_generic", <<>>)
        ELSE Finalized(dsk, ReplyOf(out.app),
                 <<Call(Row("vehicles", ud.vehicle_op_type, ud.vehicle_id, <<>>, <<>>,
                            0, 0, links, comment, ud.employee, ""),
                        TRUE, out.app)>>)

(***************************************************************************)
(* bot.py: invoices                                                        *)
(***************************************************************************)
\* in_conv: dispatched by the MAIN_MENU state; otherwise by the application's
\* own document handler, whose return value is dropped
handle_document_file(u, ud, file_name) ==
    IF ~can_access_invoices(u) THEN Result("MAIN_MENU", ud, disk, "")
    ELSE IF Extension(file_name) \notin {<<"x", "l", "s", "x">>, <<"x", "l", "s">>,
                                         <<"p", "d", "f">>}
    THEN Result("MAIN_MENU", ud, disk, "")
    ELSE Result("INVOICE_COMMENT",
                Put(Put(Put(Put(ud, "mode", "invoice"), "employee", get_username(u)),
                        "filename", file_name), "file_path", file_name),
                disk \cup {file_name}, "ask_final_comment")

handle_invoice_comment(u, ud, text, out) ==
    IF text = BTN.cancel THEN cancel(u, ud)
    ELSE IF text = BTN.add_comment THEN Result("INVOICE_COMMENT", ud, disk, "enter_comment")
    ELSE
    LET comment == final_comment(text) IN
    IF ~({"file_path", "filename"} \subseteq ud.has)
    THEN Finalized(disk, "error_generic", <<>>)
    ELSE
    LET link == upload_invoice(ud.file_path, disk, out.drv)
        dsk == disk \ {ud.file_path}
    IN  IF ~Has(ud, "employee") THEN Finalized(dsk, "error_generic", <<>>)
        ELSE Finalized(dsk, ReplyOf(out.app),
                 <<Call(Row("invoices", "", <<>>, <<>>, <<>>, 0, 0, <<link>>, comment,
                            ud.employee, ud.filename),
                        TRUE, out.app)>>)

\* a start_position that numbers the new position as the last stored one
start_position_same(u, ud) ==
    Result("POSITION_PHOTOS",
           Put(ud, "current_position",
               [number |-> Len(ud.positions), temp_photos |-> <<>>, quantity |-> 0]),
           disk, "send_photo")

(***************************************************************************)
(* bot.py: receipt / issue                                                 *)
(***************************************************************************)
start_position(u, ud) ==
    LET pos_num == Len(ud.positions) + 1 IN
    Result("POSITION_PHOTOS",
           Put(ud, "current_position",
               [number |-> pos_num, temp_photos |-> <<>>, quantity |-> 0]),
           disk, "send_photo")

handle_counterparty_selection(u, ud, text) ==
    IF text = BTN.cancel THEN cancel(u, ud)
    ELSE IF text = BTN.counterparty_other
    THEN Result("SELECT_COUNTERPARTY", ud, disk, "type_it")
    ELSE start_position(u, Put(ud, "counterparty", replace(replace(text, FACTORY), PIN)))

handle_place_selection(u, ud, text) ==
    IF text = BTN.cancel THEN cancel(u, ud)
    ELSE start_position(u, Put(ud, "counterparty", replace(text, PIN)))

\* 'done' that goes past the quantity
ask_quantity_skipped(u, ud, dsk) ==
    Result("OPERATION_SUMMARY", ud, dsk, "select_quantity")

ask_quantity(u, ud, dsk) == Result("POSITION_QTY", ud, dsk, "select_quantity")

handle_position_photo(u, ud, upd) ==
    IF upd.text = BTN.cancel THEN cancel(u, ud)
    ELSE IF upd.text = BTN.photo_done THEN ask_quantity(u, ud, disk)
    ELSE IF upd.kind = "photo"
    THEN LET fp == StagedPath("photo")
             dsk == disk \cup {fp}
         IN  IF ~Has(ud, "current_position") THEN Staged(Raise(ud, dsk, ""))
             ELSE LET ud1 == [ud EXCEPT !.current_position.temp_photos = Append(@, fp)] IN
                  IF Len(ud1.current_position.temp_photos) >= MAX_PHOTOS_PER_POSITION
                  THEN Staged(ask_quantity(u, ud1, dsk))
                  ELSE Staged(Result("POSITION_PHOTOS", ud1, dsk, "photo_count"))
    ELSE Result("POSITION_PHOTOS", ud, disk, "send_photo")

show_operation_summary(u, ud) ==
    IF ~({"op_type", "counterparty", "positions", "employee"} \subseteq ud.has)
    THEN Raise(ud, disk, "")
    ELSE Result("OPERATION_GENERAL_COMMENT", ud, disk, "ask_final_comment")

\* ''.join(c for c in text if c.isdigit())
clean_digits(text) == SelectSeq(text, isdigit)

\* the cap tested after it has been passed
position_cap_reached_late(pos_count) == pos_count > MAX_POSITIONS_PER_OPERATION

\* pos_count >= config.MAX_POSITIONS_PER_OPERATION
position_cap_reached(pos_count) == pos_count >= MAX_POSITIONS_PER_OPERATION

handle_quantity(u, ud, message_text) ==
    LET text == strip(message_text)
        clean == clean_digits(text)
        qty == int(clean)
    IN
    IF text = BTN.cancel THEN cancel(u, ud)
    ELSE IF ~Has(ud, "positions") \/ ~Has(ud, "current_position")
    THEN Result("MAIN_MENU", EmptyUD, disk, "session_expired")
    ELSE IF text = BTN.qty_custom THEN Result("POSITION_QTY", ud, disk, "enter_quantity")
    ELSE IF clean = <<>> THEN Result("POSITION_QTY", ud, disk, "enter_number")
    ELSE IF qty <= 0 \/ qty > MAX_QUANTITY THEN Result("POSITION_QTY", ud, disk, "range")
    ELSE
    LET cur == [ud.current_position EXCEPT !.quantity = qty]
        ud1 == [ud EXCEPT !.current_position = cur, !.positions = Append(@, cur)]
    IN  IF position_cap_reached(Len(ud1.positions))
        THEN show_operation_summary(u, ud1)
        ELSE Result("OPERATION_SUMMARY", ud1, disk, "position_summary")

handle_operation_summary_action(u, ud, text) ==
    IF text = BTN.cancel THEN cancel(u, ud)
    ELSE IF text = BTN.next_position THEN start_position(u, ud)
    ELSE IF text = BTN.finish THEN show_operation_summary(u, ud)
    ELSE Result("OPERATION_SUMMARY", ud, disk, "")

\* f"OP-{datetime.now().strftime('%Y%m%d-%H%M%S')}-{username}"
OperationId(username) ==
    <<strftime_date(Now(clock)), strftime_time(Now(clock)), username>>

\* the marker of a row that is never the first of its operation
is_first_position_never(i) == FALSE

\* is_first_position=(idx == 0), for the 1-based index of the model
is_first_position(i) == i = 1

\* the loop of save_operation over data["positions"], from position i on:
\* acc is the staging directory, the calls made and whether a call raised
\* os.path.splitext(photo_path)[1] or ".jpg": every staged photo is a .jpg
photo_ext(path) == ".jpg"

\* a name that leaves the index of the photo out
photo_file_name_flat(operation_id, position_number, photo_num, path) ==
    <<operation_id, <<"P">> \o pad2(position_number), <<"F">>, photo_ext(path)>>

\* f"{operation_id}_P{position_number:02d}_F{photo_num:02d}{ext}"
photo_file_name(operation_id, position_number, photo_num, path) ==
    <<operation_id, <<"P">> \o pad2(position_number), <<"F">> \o pad2(photo_num),
      photo_ext(path)>>

\* one call of drive_handler.upload_operation_photos: the files it uploads,
\* in order, under their names; result "error" when an upload raised
Upload(operation_id, position_number, photos, drv) ==
    [pos |-> position_number, paths |-> photos,
     names |-> [k \in DOMAIN photos |->
                   photo_file_name(operation_id, position_number, k, photos[k])],
     result |-> drv]

\* upload_operation_photos without its try / except: the exception of an
\* upload reaches the caller
upload_operation_photos_uncaught(photos, dsk, drv) ==
    [links |-> upload_photos(photos, dsk, drv), raised |-> drv = "error"]

\* drive_handler.upload_operation_photos: the links of the photos, or no
\* link at all when an upload raised; it never raises itself
upload_operation_photos(photos, dsk, drv) ==
    [links |-> upload_photos(photos, dsk, drv), raised |-> FALSE]

RECURSIVE SavePositions(_, _, _, _, _)
SavePositions(ud, operation_id, outs, i, acc) ==
    IF i > Len(ud.positions) \/ acc.exc THEN acc
    ELSE
    LET pos == ud.positions[i]
        up == IF pos.temp_photos # <<>>
              THEN upload_operation_photos(pos.temp_photos, acc.disk, outs[i].drv)
              ELSE [links |-> <<>>, raised |-> FALSE]
        photo_links == up.links
        row == Row("movements", ud.op_type, ud.counterparty, <<>>, operation_id,
                   pos.number, pos.quantity, photo_links, ud.general_comment,
                   ud.employee, "")
    IN  IF up.raised
        THEN [acc EXCEPT !.exc = TRUE,
                         !.uploads = Append(acc.uploads,
                                            Upload(operation_id, pos.number,
                                                   pos.temp_photos, outs[i].drv))]
        ELSE
        SavePositions(ud, operation_id, outs, i + 1,
            [disk |-> acc.disk \ Range(pos.temp_photos),
             uploads |-> IF pos.temp_photos # <<>>
                         THEN Append(acc.uploads,
                                     Upload(operation_id, pos.number, pos.temp_photos,
                                            outs[i].drv))
                         ELSE acc.uploads,
             calls |-> Append(acc.calls, Call(row, is_first_position(i), outs[i].app)),
             exc |-> outs[i].app = "exc"])

\* the reply of save_operation after its loop: the result of
\* append_movement is not looked at
save_reply(acc) == IF acc.exc THEN "error_generic" ELSE "operation_saved"

save_operation(u, ud, outs) ==
    IF ~({"employee", "positions"} \subseteq ud.has)
    THEN Finalized(disk, "error_generic", <<>>)
    ELSE IF ud.positions # <<>> /\ ~Has(ud, "op_type")
    THEN Finalized(disk, "error_generic", <<>>)
    ELSE
    LET acc == SavePositions(ud, OperationId(ud.employee), outs, 1,
                             [disk |-> disk, uploads |-> <<>>, calls |-> <<>>,
                              exc |-> FALSE])
        rep == IF ~Has(ud, "op_type") THEN "error_generic" ELSE save_reply(acc)
    IN  [Finalized(acc.disk, rep, acc.calls) EXCEPT !.uploads = acc.uploads]

handle_general_comment(u, ud, text, outs) ==
    IF text = BTN.cancel THEN cancel(u, ud)
    ELSE IF text = BTN.add_comment
    THEN Result("OPERATION_GENERAL_COMMENT", ud, disk, "enter_comment")
    ELSE save_operation(u,
            Put(ud, "general_comment",
                IF text = BTN.save THEN <<>> ELSE Prefix(text, MAX_COMMENT_LENGTH)),
            outs)

(***************************************************************************)
(* bot.py: new product                                                     *)
(***************************************************************************)
handle_new_product_photo(u, ud, upd) ==
    photo_loop(u, ud, upd, "NEW_PRODUCT_PHOTOS", "NEW_PRODUCT_COMMENT",
               MAX_PHOTOS_NEW_PRODUCT, "newprod")

handle_new_product_comment(u, ud, text) ==
    IF text = BTN.cancel THEN cancel(u, ud)
    ELSE Result("NEW_PRODUCT_TYPE", Put(ud, "comment", Prefix(text, MAX_COMMENT_LENGTH)),
                disk, "choose_type")

handle_new_product_type(u, ud, text, out) ==
    IF text = BTN.cancel THEN cancel(u, ud)
    ELSE IF text \notin Values(PRODUCT_TYPES)
    THEN Result("NEW_PRODUCT_TYPE", ud, disk, "choose")
    ELSE IF ~({"temp_photos", "employee"} \subseteq ud.has)
    THEN Finalized(disk, "error_generic", <<>>)
    ELSE
    LET links == upload_photos(ud.temp_photos, disk, out.drv)
        dsk == disk \ Range(ud.temp_photos)
    IN  IF ~Has(ud, "comment") THEN Finalized(dsk, "error_generic", <<>>)
        ELSE Finalized(dsk, ReplyOf(out.app),
                 <<Call(Row("new_products", "", <<>>, text, <<>>, 0, 0, links, ud.comment,
                            ud.employee, ""),
                        TRUE, out.app)>>)

(***************************************************************************)
(* bot.py: documents                                                       *)
(***************************************************************************)
handle_doc_type(u, ud, text) ==
    IF text = BTN.cancel THEN cancel(u, ud)
    ELSE IF text \notin Values(DOCUMENT_TYPES) THEN Result("DOC_TYPE", ud, disk, "choose")
    ELSE Result("DOC_PHOTOS", Put(Put(ud, "doc_type", text), "temp_photos", <<>>),
                disk, "send_photo")

handle_doc_photo(u, ud, upd) ==
    photo_loop(u, ud, upd, "DOC_PHOTOS", "DOC_COUNTERPARTY", MAX_PHOTOS_DOCUMENT, "doc")

handle_doc_counterparty(u, ud, text) ==
    IF text = BTN.cancel THEN cancel(u, ud)
    ELSE IF text = BTN.counterparty_other
    THEN Result("DOC_COUNTERPARTY", ud, disk, "type_it")
    ELSE Result("DOC_COMMENT",
                Put(ud, "counterparty",
                    IF text = BTN.skip THEN <<>> ELSE replace(text, FACTORY)),
                disk, "ask_final_comment")

handle_doc_comment(u, ud, text, out) ==
    IF text = BTN.cancel THEN cancel(u, ud)
    ELSE IF text = BTN.add_comment THEN Result("DOC_COMMENT", ud, disk, "enter_comment")
    ELSE
    LET comment == final_comment(text) IN
    IF ~({"temp_photos", "doc_type"} \subseteq ud.has)
    THEN Finalized(disk, "error_generic", <<>>)
    ELSE
    LET links == upload_photos(ud.temp_photos, disk, out.drv)
        dsk == disk \ Range(ud.temp_photos)
    IN  IF ~Has(ud, "employee") THEN Finalized(dsk, "error_generic", <<>>)
        ELSE Finalized(dsk, ReplyOf(out.app),
                 <<Call(Row("documents", "", ud.counterparty, ud.doc_type, <<>>, 0, 0,
                            links, comment, ud.employee, ""),
                        TRUE, out.app)>>)

(***************************************************************************)
(* bot.py: history                                                         *)
(***************************************************************************)
\* get_history(filter_key, period_key, limit=10)
HISTORY_LIMIT == 10

FilterKey(text) == IF text = HISTORY_FILTERS.all THEN "all" ELSE "issue"

handle_history_filter(u, ud, text) ==
    IF text = BTN.cancel THEN Result("MAIN_MENU", ud, disk, "welcome")
    ELSE IF text \notin Values(HISTORY_FILTERS)
    THEN Result("HISTORY_FILTER", ud, disk, "choose")
    ELSE Result("HISTORY_PERIOD", Put(ud, "history_filter", FilterKey(text)), disk,
                "select_period")

handle_history_period(u, ud, text) ==
    IF text = BTN.cancel THEN Result("MAIN_MENU", ud, disk, "welcome")
    ELSE IF text \notin Values(HISTORY_PERIODS)
    THEN Result("HISTORY_PERIOD", ud, disk, "choose")
    ELSE LET filter_key == IF Has(ud, "history_filter") THEN ud.history_filter ELSE "all"
             period_key == IF text = HISTORY_PERIODS.today THEN "today" ELSE "week"
             records == get_history(filter_key, period_key, HISTORY_LIMIT)
         IN  IF records = <<>>
             THEN Result("MAIN_MENU", ud, disk, "history_empty")
             ELSE [Result("MAIN_MENU", EmptyUD, disk, "history") EXCEPT !.shown = records]

(***************************************************************************)
(* bot.py main(): the dispatch of one update.  The ConversationHandler     *)
(* tries /start (entry point, allow_reentry), then the handlers of the     *)
(* user's state, then its fallbacks; an update it does not take goes to    *)
(* the application's handlers: /menu, the document handler, and            *)
(* global_fallback for anything that is no command.  A handler that raises *)
(* leaves the conversation state as it was; what an application-level      *)
(* handler returns is dropped.                                             *)
(***************************************************************************)
\* the users that have a conversation
Users == DOMAIN state

TextUpdate(t) == [kind |-> "text", text |-> t, file |-> ""]
PhotoUpdate == [kind |-> "photo", text |-> <<>>, file |-> ""]
OtherUpdate == [kind |-> "other", text |-> <<>>, file |-> ""]
DocumentUpdate(n) == [kind |-> "document", text |-> <<>>, file |-> n]
CommandUpdate(c) == [kind |-> "command", text |-> <<>>, file |-> c]

TextStates == {"MAIN_MENU", "SELECT_COUNTERPARTY", "SELECT_PLACE", "POSITION_QTY",
               "OPERATION_SUMMARY", "OPERATION_GENERAL_COMMENT", "NEW_PRODUCT_COMMENT",
               "NEW_PRODUCT_TYPE", "DOC_TYPE", "DOC_COUNTERPARTY", "DOC_COMMENT",
               "VEHICLE_OP_TYPE", "VEHICLE_ID", "VEHICLE_COMMENT", "INVOICE_COMMENT",
               "HISTORY_FILTER", "HISTORY_PERIOD"}
PhotoStates == {"POSITION_PHOTOS", "NEW_PRODUCT_PHOTOS", "DOC_PHOTOS", "VEHICLE_PHOTOS"}
\* the state of a user without a conversation (ConversationHandler.END)
END == "END"

\* what an application-level handler returns is dropped
Dropped(r) == [r EXCEPT !.state = ""]

Turn(u, handler, upd, r) ==
    /\ clock + r.ticks <= scenario.ticks
    /\ state' = [state EXCEPT ![u] = IF r.raised \/ r.state = "" THEN @ ELSE r.state]
    /\ user_data' = [user_data EXCEPT ![u] = r.ud]
    /\ disk' = r.disk
    /\ clock' = clock + r.ticks
    /\ store' = Persist(store, r.calls, Now(clock))
    /\ turn' = [user |-> u, handler |-> handler, prev |-> state[u], upd |-> upd,
                lost |-> user_data[u] = EmptyUD, reply |-> r.reply,
                raised |-> r.raised, calls |-> r.calls, shown |-> r.shown,
                uploads |-> r.uploads]
    /\ UNCHANGED <<users_sheet, scenario, queue, inflight, refs>>

TextTurn(st, handler, u, t, r) ==
    /\ state[u] = st
    /\ Turn(u, handler, TextUpdate(t), r)

PhotoStateTurn(st, handler, u, upd, r) ==
    /\ state[u] = st
    /\ Turn(u, handler, upd, r)

PhotoStateUpdates(st) == {TextUpdate(t) : t \in Inputs(st)} \cup {PhotoUpdate}

Start == \E u \in Users :
    Turn(u, "start", CommandUpdate("start"), start(u, user_data[u]))

CancelCommand == \E u \in Users :
    /\ state[u] # END
    /\ Turn(u, "cancel", CommandUpdate("cancel"), cancel(u, user_data[u]))

MenuCommand == \E u \in Users :
    Turn(u, "cmd_menu", CommandUpdate("menu"),
         IF state[u] # END THEN cmd_menu(u, user_data[u])
         ELSE Dropped(cmd_menu(u, user_data[u])))

MainMenu == \E u \in Users : \E t \in Inputs(state[u]) :
    TextTurn("MAIN_MENU", "handle_main_menu", u, t, handle_main_menu(u, user_data[u], t))

DocumentFile == \E u \in Users : \E n \in FileNames :
    /\ scenario.files
    /\ Turn(u, "handle_document_file", DocumentUpdate(n),
            IF state[u] = "MAIN_MENU" THEN handle_document_file(u, user_data[u], n)
            ELSE Dropped(handle_document_file(u, user_data[u], n)))

Reload == \E u \in Users :
    Turn(u, "cmd_reload", CommandUpdate("reload"), cmd_reload(u, user_data[u]))

Cleanup == \E u \in Users :
    Turn(u, "cmd_cleanup", CommandUpdate("cleanup"), cmd_cleanup(u, user_data[u]))

GlobalFallback == \E u \in Users : \E upd \in PhotoStateUpdates(state[u]) \cup {OtherUpdate} :
    /\ \/ state[u] = END
       \/ upd.kind = "other"
       \/ upd.kind = "photo" /\ state[u] \in TextStates
    /\ Turn(u, "global_fallback", upd, global_fallback(u, user_data[u]))

VehicleOpType == \E u \in Users : \E t \in Inputs(state[u]) :
    TextTurn("VEHICLE_OP_TYPE", "handle_vehicle_op_type", u, t,
             handle_vehicle_op_type(u, user_data[u], t))

VehicleId == \E u \in Users : \E t \in Inputs(state[u]) :
    TextTurn("VEHICLE_ID", "handle_vehicle_id", u, t, handle_vehicle_id(u, user_data[u], t))

VehiclePhoto == \E u \in Users : \E upd \in PhotoStateUpdates(state[u]) :
    PhotoStateTurn("VEHICLE_PHOTOS", "handle_vehicle_photo", u, upd,
                   handle_vehicle_photo(u, user_data[u], upd))

VehicleComment == \E u \in Users : \E t \in Inputs(state[u]), out \in Outcomes :
    TextTurn("VEHICLE_COMMENT", "handle_vehicle_comment", u, t,
             handle_vehicle_comment(u, user_data[u], t, out))

InvoiceComment == \E u \in Users : \E t \in Inputs(state[u]), out \in Outcomes :
    TextTurn("INVOICE_COMMENT", "handle_invoice_comment", u, t,
             handle_invoice_comment(u, user_data[u], t, out))

CounterpartySelection == \E u \in Users : \E t \in Inputs(state[u]) :
    TextTurn("SELECT_COUNTERPARTY", "handle_counterparty_selection", u, t,
             handle_counterparty_selection(u, user_data[u], t))

PlaceSelection == \E u \in Users : \E t \in Inputs(state[u]) :
    TextTurn("SELECT_PLACE", "handle_place_selection", u, t,
             handle_place_selection(u, user_data[u], t))

PositionPhoto == \E u \in Users : \E upd \in PhotoStateUpdates(state[u]) :
    PhotoStateTurn("POSITION_PHOTOS", "handle_position_photo", u, upd,
                   handle_position_photo(u, user_data[u], upd))

Quantity == \E u \in Users : \E t \in Inputs(state[u]) :
    TextTurn("POSITION_QTY", "handle_quantity", u, t, handle_quantity(u, user_data[u], t))

OperationSummaryAction == \E u \in Users : \E t \in Inputs(state[u]) :
    TextTurn("OPERATION_SUMMARY", "handle_operation_summary_action", u, t,
             handle_operation_summary_action(u, user_data[u], t))

GeneralComment == \E u \in Users : \E t \in Inputs(state[u]) :
    \E outs \in [DOMAIN user_data[u].positions -> Outcomes] :
        TextTurn("OPERATION_GENERAL_COMMENT", "handle_general_comment", u, t,
                 handle_general_comment(u, user_data[u], t, outs))

NewProductPhoto == \E u \in Users : \E upd \in PhotoStateUpdates(state[u]) :
    PhotoStateTurn("NEW_PRODUCT_PHOTOS", "handle_new_product_photo", u, upd,
                   handle_new_product_photo(u, user_data[u], upd))

NewProductComment == \E u \in Users : \E t \in Inputs(state[u]) :
    TextTurn("NEW_PRODUCT_COMMENT", "handle_new_product_comment", u, t,
             handle_new_product_comment(u, user_data[u], t))

NewProductType == \E u \in Users : \E t \in Inputs(state[u]), out \in Outcomes :
    TextTurn("NEW_PRODUCT_TYPE", "handle_new_product_type", u, t,
             handle_new_product_type(u, user_data[u], t, out))

DocType == \E u \in Users : \E t \in Inputs(state[u]) :
    TextTurn("DOC_TYPE", "handle_doc_type", u, t, handle_doc_type(u, user_data[u], t))

DocPhoto == \E u \in Users : \E upd \in PhotoStateUpdates(state[u]) :
    PhotoStateTurn("DOC_PHOTOS", "handle_doc_photo", u, upd,
                   handle_doc_photo(u, user_data[u], upd))

DocCounterparty == \E u \in Users : \E t \in Inputs(state[u]) :
    TextTurn("DOC_COUNTERPARTY", "handle_doc_counterparty", u, t,
             handle_doc_counterparty(u, user_data[u], t))

DocComment == \E u \in Users : \E t \in Inputs(state[u]), out \in Outcomes :
    TextTurn("DOC_COMMENT", "handle_doc_comment", u, t,
             handle_doc_comment(u, user_data[u], t, out))

HistoryFilter == \E u \in Users : \E t \in Inputs(state[u]) :
    TextTurn("HISTORY_FILTER", "handle_history_filter", u, t,
             handle_history_filter(u, user_data[u], t))

HistoryPeriod == \E u \in Users : \E t \in Inputs(state[u]) :
    TextTurn("HISTORY_PERIOD", "handle_history_period", u, t,
             handle_history_period(u, user_data[u], t))

(***************************************************************************)
(* The user table the run starts with: the user is absent, or present with *)
(* every capability cell TRUE, every cell FALSE, or every cell empty.      *)
(***************************************************************************)
UserRow(cell) == [username |-> "ann", warehouse |-> cell, documents |-> cell,
                  vehicles |-> cell, invoices |-> cell, admin |-> cell,
                  active |-> "TRUE"]

UserTables == {<<>>, <<UserRow("TRUE")>>, <<UserRow("FALSE")>>, <<UserRow("")>>}

(***************************************************************************)
(* What the operator does in a run: the workflows chosen from the menu,    *)
(* whether attachments are sent, and how long the run lasts.  A run stays  *)
(* within one workflow family, or mixes all of them for a shorter time.    *)
(***************************************************************************)
Scenarios ==
    { [menu |-> {MENU.receipt}, files |-> FALSE, ticks |-> MaxClock],
      [menu |-> {MENU.vehicles, MENU.history}, files |-> FALSE, ticks |-> MaxClock],
      [menu |-> {MENU.documents}, files |-> FALSE, ticks |-> MaxClock],
      [menu |-> {MENU.new_product}, files |-> FALSE, ticks |-> MaxClock],
      [menu |-> {}, files |-> TRUE, ticks |-> MaxClock],
      [menu |-> Values(MENU), files |-> TRUE, ticks |-> MixedClock] }

RefKeys == {"users", "counterparties", "places"}

\* nothing read yet: no cache entry (ts -1 stands for None), nothing loaded
NoRefs == [tables |-> [counterparties |-> <<>>, places |-> <<>>],
           cache |-> [key \in RefKeys |-> [ts |-> -1, data |-> <<>>]],
           users |-> <<>>, counterparties |-> <<>>, places |-> <<>>,
           last_update |-> -1,
           stats |-> [counterparties |-> 0, places |-> 0, users |-> 0]]

NoTurn == [user |-> 0, handler |-> "", prev |-> END, upd |-> OtherUpdate,
           lost |-> TRUE, reply |-> "", raised |-> FALSE, calls |-> <<>>,
           shown |-> <<>>, uploads |-> <<>>]

Init ==
    /\ state = [u \in {1} |-> END]
    /\ user_data = [u \in {1} |-> EmptyUD]
    /\ disk = {}
    /\ clock = 0
    /\ store = <<>>
    /\ users_sheet \in UserTables
    /\ turn = NoTurn
    /\ scenario \in Scenarios
    /\ queue = <<>>
    /\ inflight = <<>>
    /\ refs = NoRefs

Next ==
    \/ Start \/ CancelCommand \/ MenuCommand \/ MainMenu \/ DocumentFile
    \/ GlobalFallback \/ Reload \/ Cleanup
    \/ VehicleOpType \/ VehicleId \/ VehiclePhoto \/ VehicleComment
    \/ InvoiceComment
    \/ CounterpartySelection \/ PlaceSelection \/ PositionPhoto \/ Quantity
    \/ OperationSummaryAction \/ GeneralComment
    \/ NewProductPhoto \/ NewProductComment \/ NewProductType
    \/ DocType \/ DocPhoto \/ DocCounterparty \/ DocComment
    \/ HistoryFilter \/ HistoryPeriod

Spec == Init /\ [][Next]_vars

(***************************************************************************)
(* get_history as a function of the sheets: the run starts in the history  *)
(* menu with any sheets of up to MaxRows rows, written on the 9th or the   *)
(* 10th, and get_history is also called with a filter, a period and a      *)
(* limit of 1 or 2.                                                        *)
(***************************************************************************)
MaxRows == 3

Moments == {[day |-> 9, sec |-> 10], [day |-> 10, sec |-> 9], [day |-> 10, sec |-> 10]}

HistoryRows ==
    { Stored([sheet |-> k.sheet, type |-> k.type, target |-> Name, op_id |-> <<>>], m) :
        k \in {[sheet |-> "movements", type |-> "receipt"],
               [sheet |-> "movements", type |-> "issue"]},
        m \in Moments }

FilterKeys == {"all", "receipt", "issue"}
Limits == {1, 2}

HistoryInit ==
    /\ state = [u \in {1} |-> "HISTORY_FILTER"]
    /\ user_data = [u \in {1} |-> EmptyUD]
    /\ disk = {}
    /\ clock = 0
    /\ store \in UNION {[1..n -> HistoryRows] : n \in 0..MaxRows}
    /\ users_sheet = <<UserRow("TRUE")>>
    /\ turn = NoTurn
    /\ scenario = [menu |-> {MENU.history}, files |-> FALSE, ticks |-> 0]
    /\ queue = <<>>
    /\ inflight = <<>>
    /\ refs = NoRefs

\* one call of sheets_handler.get_history
GetHistory == \E f \in FilterKeys : \E p \in {"today"} : \E l \in Limits :
    /\ turn' = [NoTurn EXCEPT !.handler = "get_history",
                              !.upd = [filter |-> f, period |-> p, limit |-> l],
                              !.shown = get_history(f, p, l)]
    /\ UNCHANGED <<state, user_data, disk, clock, store, users_sheet, scenario,
                   queue, inflight, refs>>

HistoryNext == GetHistory \/ HistoryFilter \/ HistoryPeriod

HistorySpec == HistoryInit /\ [][HistoryNext]_vars

(***************************************************************************)
(* The Application of main(): run_polling puts the updates it receives     *)
(* into the update queue; the update fetcher takes them in order and, the  *)
(* application being built without concurrent_updates and every handler    *)
(* blocking, awaits the handlers of one update before it takes the next.   *)
(* An invocation that saves goes on to its uploads and appends before it   *)
(* returns.                                                                *)
(***************************************************************************)
MaxQueue == 3

\* an Application that takes the next update without awaiting the last
concurrent_updates_on == TRUE

\* Application.builder().token(...).build(): concurrent_updates is not set
concurrent_updates == FALSE

Senders == {1, 2}

\* run_polling: an update of user u arrives; `save` tells whether its
\* handler will finalize a draft
Receive == \E u \in Senders : \E f \in BOOLEAN :
    /\ Len(queue) < MaxQueue
    /\ queue' = Append(queue, [user |-> u, save |-> f])
    /\ UNCHANGED <<state, user_data, disk, clock, store, users_sheet, turn, scenario, refs,
                   inflight>>

\* the update fetcher hands the next update to its handler
Fetch ==
    /\ queue # <<>>
    /\ concurrent_updates \/ inflight = <<>>
    /\ inflight' = Append(inflight, [user |-> queue[1].user, save |-> queue[1].save,
                                     phase |-> "running"])
    /\ queue' = Tail(queue)
    /\ UNCHANGED <<state, user_data, disk, clock, store, users_sheet, turn, scenario, refs>>

Without(seq, i) == SubSeq(seq, 1, i - 1) \o SubSeq(seq, i + 1, Len(seq))

\* a finalizing handler starts its uploads and appends
BeginSave == \E i \in DOMAIN inflight :
    /\ inflight[i].save /\ inflight[i].phase = "running"
    /\ inflight' = [inflight EXCEPT ![i].phase = "saving"]
    /\ UNCHANGED <<state, user_data, disk, clock, store, users_sheet, turn, scenario, refs,
                   queue>>

\* a handler returns
Return == \E i \in DOMAIN inflight :
    /\ inflight[i].save => inflight[i].phase = "saving"
    /\ inflight' = Without(inflight, i)
    /\ UNCHANGED <<state, user_data, disk, clock, store, users_sheet, turn, scenario, refs,
                   queue>>

DispatchInit ==
    /\ state = [u \in Senders |-> END]
    /\ user_data = [u \in Senders |-> EmptyUD]
    /\ disk = {}
    /\ clock = 0
    /\ store = <<>>
    /\ users_sheet = <<UserRow("TRUE"), UserRow("TRUE")>>
    /\ turn = NoTurn
    /\ scenario = [menu |-> {}, files |-> FALSE, ticks |-> 0]
    /\ queue = <<>>
    /\ inflight = <<>>
    /\ refs = NoRefs

DispatchNext == Receive \/ Fetch \/ BeginSave \/ Return

DispatchSpec == DispatchInit /\ [][DispatchNext]_vars

(***************************************************************************)
(* The Reference Cache.  The tables of users, counterparties and places    *)
(* are edited in the spreadsheet while the bot runs.  SheetsHandler keeps  *)
(* what it read of each table for refresh_ttl_sec seconds; the             *)
(* PermissionsManager keeps what _load_all made of it for                  *)
(* CACHE_REFRESH_MINUTES minutes, or until force_refresh.                  *)
(***************************************************************************)
MaxSeconds == 2
REFRESH_TTL_SEC == 1
CACHE_REFRESH_MINUTES == 1

\* the rows of a counterparties or places table
RefRow(active) == [name |-> Name, active |-> active]
RefTables == {<<>>, <<RefRow("TRUE")>>, <<RefRow("TRUE"), RefRow("FALSE")>>}

\* time.time(), in seconds
time == Now(clock).sec

\* the backing tables as they are now
Backing == [users |-> get_users, counterparties |-> refs.tables.counterparties,
            places |-> refs.tables.places]

\* SheetsHandler._cache_get returns something else than None: there is an
\* entry and it is not older than refresh_ttl_sec
cache_get(key) ==
    LET ts == refs.cache[key].ts
    IN  IF ts = -1 THEN FALSE
        ELSE IF time - ts > REFRESH_TTL_SEC THEN FALSE
        ELSE TRUE

\* the rows get_counterparties / get_places keep: `active is True`
active_rows(rows) ==
    SelectSeq(rows, LAMBDA r : to_bool(r.active) = PyBoolean(TRUE))

\* what get_users / get_counterparties / get_places read of the table;
\* _get_values answers an HttpError with no rows at all
read_table(key, out) ==
    IF out = "error" THEN <<>>
    ELSE IF key = "users" THEN Backing[key] ELSE active_rows(Backing[key])

\* get_users / get_counterparties / get_places: the cached rows if any
get_cached(key, out) ==
    IF cache_get(key) THEN refs.cache[key].data ELSE read_table(key, out)

\* what became of each table in a load: served from the cache, read, or
\* not read because of an HttpError
Reads(outs) == [key \in RefKeys |-> IF cache_get(key) THEN "cached" ELSE outs[key]]

\* PermissionsManager._load_all: the three getters are called, their
\* results kept, and each getter that read its table has cached it
load_reference(outs) ==
    [refs EXCEPT
       !.cache = [key \in RefKeys |->
                    IF cache_get(key) THEN refs.cache[key]
                    ELSE [ts |-> time, data |-> read_table(key, outs[key])]],
       !.users = users_map(get_cached("users", outs["users"])),
       !.counterparties = get_cached("counterparties", outs["counterparties"]),
       !.places = get_cached("places", outs["places"]),
       !.last_update = time]

ReloadInit ==
    /\ state = [u \in {1} |-> END]
    /\ user_data = [u \in {1} |-> EmptyUD]
    /\ disk = {}
    /\ clock = 0
    /\ store = <<>>
    /\ users_sheet \in UserTables
    /\ turn = NoTurn
    /\ scenario = [menu |-> {}, files |-> FALSE, ticks |-> 0]
    /\ queue = <<>>
    /\ inflight = <<>>
    /\ refs \in {[NoRefs EXCEPT !.tables = [counterparties |-> c, places |-> p]] :
                   c \in RefTables, p \in RefTables}

\* somebody edits the tables in the spreadsheet
EditTables == \E us \in UserTables : \E c, p \in RefTables :
    /\ <<us, c, p>> # <<users_sheet, refs.tables.counterparties, refs.tables.places>>
    /\ users_sheet' = us
    /\ refs' = [refs EXCEPT !.tables = [counterparties |-> c, places |-> p]]
    /\ turn' = [NoTurn EXCEPT !.handler = "edit"]
    /\ UNCHANGED <<state, user_data, disk, clock, store, scenario, queue, inflight>>

\* a second passes
Second_passes ==
    /\ time < MaxSeconds
    /\ clock' = clock + TicksPerSecond
    /\ turn' = [NoTurn EXCEPT !.handler = "time"]
    /\ UNCHANGED <<state, user_data, disk, store, users_sheet, scenario, queue,
                   inflight, refs>>

\* PermissionsManager.refresh_if_needed, called by every query
RefreshIfNeeded == \E outs \in [RefKeys -> {"ok", "error"}] :
    LET due == \/ refs.last_update = -1
               \/ time - refs.last_update > 60 * CACHE_REFRESH_MINUTES
    IN
    /\ refs' = IF due THEN load_reference(outs) ELSE refs
    /\ turn' = [NoTurn EXCEPT !.handler = "refresh_if_needed",
                              !.upd = IF due THEN Reads(outs)
                                      ELSE [key \in RefKeys |-> "cached"]]
    /\ UNCHANGED <<state, user_data, disk, clock, store, users_sheet, scenario,
                   queue, inflight>>

\* PermissionsManager.force_refresh
ForceRefresh == \E outs \in [RefKeys -> {"ok", "error"}] :
    /\ refs' = LET loaded == load_reference(outs)
               IN  [loaded EXCEPT
                      !.stats = [counterparties |-> Len(loaded.counterparties),
                                 places |-> Len(loaded.places),
                                 users |-> Cardinality(DOMAIN loaded.users)]]
    /\ turn' = [NoTurn EXCEPT !.handler = "force_refresh", !.upd = Reads(outs)]
    /\ UNCHANGED <<state, user_data, disk, clock, store, users_sheet, scenario,
                   queue, inflight>>

ReloadNext == EditTables \/ Second_passes \/ RefreshIfNeeded \/ ForceRefresh

ReloadSpec == ReloadInit /\ [][ReloadNext]_vars

(***************************************************************************)
(* Two operators at once: user_data is kept per user, the staging          *)
(* directory is one.  Both are registered; they send invoice files and go  *)
(* through the vehicle workflow.                                           *)
(***************************************************************************)
StagingInit ==
    /\ state = [u \in Senders |-> END]
    /\ user_data = [u \in Senders |-> EmptyUD]
    /\ disk = {}
    /\ clock = 0
    /\ store = <<>>
    /\ users_sheet = <<UserRow("TRUE"), UserRow("TRUE")>>
    /\ turn = NoTurn
    /\ scenario = [menu |-> {MENU.vehicles}, files |-> TRUE, ticks |-> 1]
    /\ queue = <<>>
    /\ inflight = <<>>
    /\ refs = NoRefs

StagingNext ==
    \/ Start \/ MainMenu \/ DocumentFile \/ InvoiceComment
    \/ VehicleOpType \/ VehicleId \/ VehiclePhoto \/ VehicleComment

StagingSpec == StagingInit /\ [][StagingNext]_vars

(***************************************************************************)
(* A receipt with photos: one registered operator goes through the         *)
(* receipt workflow only, for long enough to stage three photos and save.  *)
(***************************************************************************)
ReceiptInit ==
    /\ state = [u \in {1} |-> END]
    /\ user_data = [u \in {1} |-> EmptyUD]
    /\ disk = {}
    /\ clock = 0
    /\ store = <<>>
    /\ users_sheet = <<UserRow("TRUE")>>
    /\ turn = NoTurn
    /\ scenario = [menu |-> {MENU.receipt}, files |-> FALSE, ticks |-> MaxClock + 2]
    /\ queue = <<>>
    /\ inflight = <<>>
    /\ refs = NoRefs

ReceiptNext ==
    \/ Start \/ MainMenu \/ CounterpartySelection \/ PositionPhoto \/ Quantity
    \/ OperationSummaryAction \/ GeneralComment

ReceiptSpec == ReceiptInit /\ [][ReceiptNext]_vars

(***************************************************************************)
(* Two operators in the vehicle workflow on one day, for long enough that  *)
(* each stages a photo and saves.                                          *)
(***************************************************************************)
FleetInit ==
    /\ state = [u \in Senders |-> END]
    /\ user_data = [u \in Senders |-> EmptyUD]
    /\ disk = {}
    /\ clock = 0
    /\ store = <<>>
    /\ users_sheet = <<UserRow("TRUE"), UserRow("TRUE")>>
    /\ turn = NoTurn
    /\ scenario = [menu |-> {MENU.vehicles}, files |-> FALSE, ticks |-> 2 * MaxClock]
    /\ queue = <<>>
    /\ inflight = <<>>
    /\ refs = NoRefs

FleetNext ==
    \/ Start \/ MainMenu \/ VehicleOpType \/ VehicleId \/ VehiclePhoto
    \/ VehicleComment

FleetSpec == FleetInit /\ [][FleetNext]_vars

(***************************************************************************)
(* The claims.  A turn is a step of Next; turn' describes the update it    *)
(* processed and what was answered.                                        *)
(***************************************************************************)
Idle == {END, "MAIN_MENU"}

\* the update is a cancel input: the /cancel command or the cancel button
IsCancel(upd) ==
    \/ upd = CommandUpdate("cancel")
    \/ upd.kind = "text" /\ upd.text = BTN.cancel

\* the local files a draft refers to
DraftFiles(ud) ==
    cleanup_temp_photos(ud) \cup (IF Has(ud, "file_path") THEN {ud.file_path} ELSE {})

\* C1: a cancel input processed in a non-idle state leaves the user in
\* MAIN_MENU with an empty user_data and none of the files the draft referred
\* to (temp photos and the staged invoice file_path) on disk.
C1_CancelLeavesNothing ==
    [][\A u \in Users :
          (turn'.user = u /\ IsCancel(turn'.upd) /\ state[u] \notin Idle)
          => /\ state'[u] = "MAIN_MENU"
             /\ user_data'[u] = EmptyUD
             /\ DraftFiles(user_data[u]) \cap disk' = {}]_vars

\* the photo list of the draft in a photo-collecting state
PhotoList(ud, st) ==
    IF st = "POSITION_PHOTOS"
    THEN (IF Has(ud, "current_position") THEN ud.current_position.temp_photos ELSE <<>>)
    ELSE ud.temp_photos

MaxPhotos(st) ==
    CASE st = "POSITION_PHOTOS" -> MAX_PHOTOS_PER_POSITION
      [] st = "NEW_PRODUCT_PHOTOS" -> MAX_PHOTOS_NEW_PRODUCT
      [] st = "DOC_PHOTOS" -> MAX_PHOTOS_DOCUMENT
      [] st = "VEHICLE_PHOTOS" -> MAX_PHOTOS_VEHICLE

AfterPhotos(st) ==
    CASE st = "POSITION_PHOTOS" -> "POSITION_QTY"
      [] st = "NEW_PRODUCT_PHOTOS" -> "NEW_PRODUCT_COMMENT"
      [] st = "DOC_PHOTOS" -> "DOC_COUNTERPARTY"
      [] st = "VEHICLE_PHOTOS" -> "VEHICLE_COMMENT"

\* the last turn was a photo uploaded by u in a photo-collecting state
PhotoUploaded(u) ==
    /\ turn.user = u /\ turn.upd.kind = "photo" /\ turn.prev \in PhotoStates
    /\ ~turn.raised

\* C2: in every photo-collecting state the photo list of the draft is no
\* longer than the maximum configured for that state (and no accepted
\* position holds more than MAX_PHOTOS_PER_POSITION photos), and the upload
\* that brings the list to the maximum leaves the user in the next state of
\* the workflow in that same turn.
C2_PhotoCountBounded ==
    \A u \in Users :
        /\ state[u] \in PhotoStates
           => Len(PhotoList(user_data[u], state[u])) <= MaxPhotos(state[u])
        /\ \A i \in DOMAIN user_data[u].positions :
               Len(user_data[u].positions[i].temp_photos) <= MAX_PHOTOS_PER_POSITION
        /\ (PhotoUploaded(u)
             /\ Len(PhotoList(user_data[u], turn.prev)) >= MaxPhotos(turn.prev))
           => state[u] = AfterPhotos(turn.prev)

\* C2 witness: the upload that filled the vehicle photo list moved the user to
\* the vehicle comment.
C2_Witness ==
    \E u \in Users :
        /\ PhotoUploaded(u) /\ turn.prev = "VEHICLE_PHOTOS"
        /\ Len(user_data[u].temp_photos) = MAX_PHOTOS_VEHICLE
        /\ state[u] = "VEHICLE_COMMENT"

\* the last turn was the 'done' button pressed by u in a photo-collecting
\* state whose draft was there
DonePressed(u) ==
    /\ turn.user = u /\ turn.upd = TextUpdate(BTN.photo_done)
    /\ turn.prev \in PhotoStates /\ ~turn.lost /\ ~turn.raised

\* C3: 'done' pressed in a photo-collecting state while the photo list is
\* empty does not advance the state, and no accepted position has an empty
\* photo list.
C3_DoneNeedsPhoto ==
    \A u \in Users :
        /\ (DonePressed(u) /\ PhotoList(user_data[u], turn.prev) = <<>>)
           => state[u] = turn.prev
        /\ \A i \in DOMAIN user_data[u].positions :
               user_data[u].positions[i].temp_photos # <<>>

\* the text is an integer numeral: digits, with an optional minus sign
IsNumeral(t) ==
    LET d == IF t # <<>> /\ Head(t) = "-" THEN Tail(t) ELSE t
    IN  d # <<>> /\ \A k \in DOMAIN d : isdigit(d[k])

NumeralValue(t) == IF Head(t) = "-" THEN 0 - int(Tail(t)) ELSE int(t)

\* the last turn was a free text handled by handle_quantity with the draft there
QuantityEntered(u) ==
    /\ turn.user = u /\ turn.handler = "handle_quantity" /\ ~turn.raised
    /\ turn.upd.text \in QtyTexts /\ turn.reply # "session_expired"

\* C4: in POSITION_QTY a text without digits is rejected, an integer outside
\* 1..MAX_QUANTITY (zero, negative, over the maximum) is rejected, and a text
\* is accepted only when it is an integer in 1..MAX_QUANTITY, which is then
\* the quantity stored in the position.
C4_QuantityValidated ==
    \A u \in Users : QuantityEntered(u) =>
        LET t == turn.upd.text
            ps == user_data[u].positions
        IN  /\ clean_digits(t) = <<>> => state[u] = "POSITION_QTY"
            /\ (IsNumeral(t) /\ NumeralValue(t) \notin 1..MAX_QUANTITY)
               => state[u] = "POSITION_QTY"
            /\ state[u] # "POSITION_QTY"
               => /\ IsNumeral(t) /\ NumeralValue(t) \in 1..MAX_QUANTITY
                  /\ ps # <<>> /\ ps[Len(ps)].quantity = NumeralValue(t)

\* C5: a save of a movement draft with N positions that ends with the
\* 'saved' reply has made exactly N appends to the movements sheet, the i-th
\* for the i-th position with position numbers increasing, all with the
\* Operation_ID of the first, and with the first-position marker true on the
\* first append only.
C5_SaveAppendsInOrder ==
    [][\A u \in Users :
          (turn'.user = u /\ turn'.handler = "handle_general_comment"
           /\ turn'.reply = "operation_saved")
          => LET ps == user_data[u].positions
                 cs == turn'.calls
             IN  /\ Len(cs) = Len(ps)
                 /\ \A i \in DOMAIN cs :
                        /\ cs[i].row.sheet = "movements"
                        /\ cs[i].row.pos = ps[i].number
                        /\ cs[i].row.qty = ps[i].quantity
                        /\ cs[i].row.op_id = cs[1].row.op_id
                        /\ cs[i].first = (i = 1)
                        /\ i > 1 => cs[i].row.pos > cs[i - 1].row.pos]_vars

\* C5 witness: a movement with two positions has been saved by two appends.
C5_Witness ==
    /\ turn.handler = "handle_general_comment" /\ turn.reply = "operation_saved"
    /\ Len(turn.calls) = 2
    /\ turn.calls[1].row.pos = 1 /\ turn.calls[2].row.pos = 2

\* C6: a movement draft never holds more than MAX_POSITIONS_PER_OPERATION
\* positions; the accepted quantity that brings the count to the maximum
\* leaves the user at the general comment, and the state that offers 'next
\* position' is never held with a full draft.
C6_PositionsCapped ==
    \A u \in Users :
        LET n == Len(user_data[u].positions) IN
        /\ n <= MAX_POSITIONS_PER_OPERATION
        /\ (QuantityEntered(u) /\ state[u] # "POSITION_QTY"
             /\ n >= MAX_POSITIONS_PER_OPERATION)
           => state[u] = "OPERATION_GENERAL_COMMENT"
        /\ state[u] = "OPERATION_SUMMARY" => n < MAX_POSITIONS_PER_OPERATION

\* C6 witness: the quantity of the last allowed position has been accepted.
C6_Witness ==
    \E u \in Users :
        /\ QuantityEntered(u) /\ turn.prev = "POSITION_QTY"
        /\ Len(user_data[u].positions) = MAX_POSITIONS_PER_OPERATION
        /\ state[u] = "OPERATION_GENERAL_COMMENT"

\* the turn ran the save of a workflow: the input of a final step that is
\* neither the cancel nor the 'add comment' button
IsFinalize(t) ==
    \/ /\ t.handler \in {"handle_general_comment", "handle_vehicle_comment",
                         "handle_invoice_comment", "handle_doc_comment"}
       /\ t.upd.text \notin {BTN.cancel, BTN.add_comment}
    \/ /\ t.handler = "handle_new_product_type"
       /\ t.upd.text \in Values(PRODUCT_TYPES)

\* C7: after every finalize (movement, vehicle, document, invoice, new
\* product), whether the append succeeded, returned failure or something
\* raised during the save, the user is in MAIN_MENU with an empty user_data
\* and no exception has left the handler.
C7_FinalizeClears ==
    \A u \in Users :
        (turn.user = u /\ IsFinalize(turn))
        => /\ state[u] = "MAIN_MENU"
           /\ user_data[u] = EmptyUD
           /\ ~turn.raised

\* C7 witness: a finalize whose append raised has ended in MAIN_MENU with an
\* empty user_data.
C7_Witness ==
    \E u \in Users :
        /\ turn.user = u /\ IsFinalize(turn)
        /\ \E i \in DOMAIN turn.calls : turn.calls[i].result = "exc"
        /\ turn.reply = "error_generic"
        /\ state[u] = "MAIN_MENU" /\ user_data[u] = EmptyUD

\* C8: when an append made by a finalize returned false, the reply of that
\* turn is a failure message and not the 'saved' message; for the rows of a
\* movement as for the single record of the other workflows.
C8_FailedAppendReported ==
    \A u \in Users :
        (turn.user = u /\ IsFinalize(turn)
         /\ \E i \in DOMAIN turn.calls : turn.calls[i].result = "fail")
        => /\ turn.reply \in {"error_google", "error_generic"}
           /\ turn.reply # "operation_saved"

\* the user is not in the user table, or the cell of the capability is
\* FALSE or empty
FlagOff(u, column) ==
    \/ u \notin DOMAIN users_sheet
    \/ users_sheet[u][column] \in {"FALSE", ""}

WarehouseStates == {"SELECT_COUNTERPARTY", "SELECT_PLACE", "POSITION_PHOTOS",
                    "POSITION_QTY", "OPERATION_SUMMARY", "OPERATION_GENERAL_COMMENT",
                    "NEW_PRODUCT_PHOTOS", "NEW_PRODUCT_COMMENT", "NEW_PRODUCT_TYPE"}
DocumentStates == {"DOC_TYPE", "DOC_PHOTOS", "DOC_COUNTERPARTY", "DOC_COMMENT"}
VehicleStates == {"VEHICLE_OP_TYPE", "VEHICLE_ID", "VEHICLE_PHOTOS", "VEHICLE_COMMENT"}
InvoiceStates == {"INVOICE_COMMENT"}

\* the menu entries and the states each capability gates
Gates == { [column |-> "warehouse", states |-> WarehouseStates,
            entries |-> {MENU.receipt, MENU.issue, MENU.new_product}],
           [column |-> "documents", states |-> DocumentStates,
            entries |-> {MENU.documents}],
           [column |-> "vehicles", states |-> VehicleStates,
            entries |-> {MENU.vehicles}],
           [column |-> "invoices", states |-> InvoiceStates, entries |-> {}] }

\* C9: a user who is not in the user table, or whose capability cell is
\* FALSE or empty, is never in a state of the workflows that capability
\* gates, and choosing such a workflow in the menu leaves the user in
\* MAIN_MENU with the denial notice.
C9_GateKeepsOut ==
    \A u \in Users : \A g \in Gates :
        FlagOff(u, g.column)
        => /\ state[u] \notin g.states
           /\ (turn.user = u /\ turn.handler = "handle_main_menu"
                /\ turn.upd.text \in g.entries)
              => (state[u] = "MAIN_MENU" /\ turn.reply = "access_denied")

\* the states whose handlers read the draft built by the earlier steps
DraftStates ==
    {"POSITION_PHOTOS", "POSITION_QTY", "OPERATION_SUMMARY",
     "OPERATION_GENERAL_COMMENT", "NEW_PRODUCT_PHOTOS", "NEW_PRODUCT_COMMENT",
     "NEW_PRODUCT_TYPE", "DOC_PHOTOS", "DOC_COUNTERPARTY", "DOC_COMMENT",
     "VEHICLE_PHOTOS", "VEHICLE_COMMENT", "INVOICE_COMMENT"}

\* C10: a turn handled by the handler of a draft-dependent state while
\* user_data was empty ends in MAIN_MENU with a reply, and no exception
\* leaves the handler.
C10_LostDraftRecovers ==
    \A u \in Users :
        (turn.user = u /\ turn.prev \in DraftStates /\ turn.lost
         /\ turn.handler \notin {"global_fallback", "handle_document_file"})
        => /\ ~turn.raised
           /\ state[u] = "MAIN_MENU"
           /\ turn.reply # ""

\* c is the text t cut to at most MAX_COMMENT_LENGTH characters
Truncated(c, t) ==
    /\ Len(c) = (IF Len(t) < MAX_COMMENT_LENGTH THEN Len(t) ELSE MAX_COMMENT_LENGTH)
    /\ \A k \in 1..Len(c) : c[k] = t[k]

\* the choices that mean "no comment" in the final step a handler serves
SkipChoices(handler) ==
    IF handler = "handle_general_comment" THEN {BTN.save}
    ELSE {BTN.skip, BTN.no_comment}

\* C11: a stored comment is never longer than MAX_COMMENT_LENGTH; the record
\* a final step hands to the Record Store carries the empty comment after the
\* explicit skip / no-comment / save choice and otherwise the user's text cut
\* to MAX_COMMENT_LENGTH characters, and the new-product description is kept
\* in the draft cut the same way.
C11_CommentNormalised ==
    \A u \in Users :
        /\ Len(user_data[u].comment) <= MAX_COMMENT_LENGTH
        /\ Len(user_data[u].general_comment) <= MAX_COMMENT_LENGTH
        /\ \A i \in DOMAIN turn.calls :
               Len(turn.calls[i].row.comment) <= MAX_COMMENT_LENGTH
        /\ (turn.user = u /\ IsFinalize(turn)
             /\ turn.handler # "handle_new_product_type")
           => \A i \in DOMAIN turn.calls :
                 IF turn.upd.text \in SkipChoices(turn.handler)
                 THEN turn.calls[i].row.comment = <<>>
                 ELSE Truncated(turn.calls[i].row.comment, turn.upd.text)
        /\ (turn.user = u /\ turn.handler = "handle_new_product_comment"
             /\ turn.upd.text # BTN.cancel)
           => Truncated(user_data[u].comment, turn.upd.text)

\* C11 witness: a record was appended whose comment is the first
\* MAX_COMMENT_LENGTH characters of a longer text.
C11_Witness ==
    /\ IsFinalize(turn) /\ Len(turn.upd.text) > MAX_COMMENT_LENGTH
    /\ \E i \in DOMAIN turn.calls :
           /\ turn.calls[i].result = "ok"
           /\ Len(turn.calls[i].row.comment) = MAX_COMMENT_LENGTH
           /\ Truncated(turn.calls[i].row.comment, turn.upd.text)

\* the number of vehicle rows the Record Store holds
VehicleRows == Cardinality({i \in DOMAIN store : store[i].sheet = "vehicles"})

\* the last turn was the auto-id choice of u in VEHICLE_ID
AutoIdChosen(u) ==
    /\ turn.user = u /\ turn.handler = "handle_vehicle_id"
    /\ turn.upd.text = BTN.vehicle_auto

\* C12: after the auto-id choice, with n vehicle rows in the Record Store,
\* the vehicle id of the draft is the auto-id label numbered n + 1 and the
\* user is in VEHICLE_PHOTOS.
C12_AutoVehicleId ==
    \A u \in Users :
        AutoIdChosen(u)
        => /\ user_data[u].vehicle_id = <<"vehicle#", ToString(VehicleRows + 1)>>
           /\ Has(user_data[u], "vehicle_id")
           /\ state[u] = "VEHICLE_PHOTOS"

\* C12 witness: with one vehicle row stored, the auto id is number 2.
C12_Witness ==
    \E u \in Users :
        /\ AutoIdChosen(u) /\ VehicleRows = 1
        /\ user_data[u].vehicle_id = <<"vehicle#", "2">>
        /\ state[u] = "VEHICLE_PHOTOS"

\* the day and the second a record was written
Day(rec) == int(SubSeq(rec.date, 9, 10))
Second(rec) == 3600 * int(SubSeq(rec.time, 1, 2)) + 60 * int(SubSeq(rec.time, 4, 5))
               + int(SubSeq(rec.time, 7, 8))
Later(a, b) == Day(a) > Day(b) \/ (Day(a) = Day(b) /\ Second(a) > Second(b))

\* the records of the sheets the filter asks for
Matching(f) ==
    Records(SelectSeq(store, LAMBDA r :
        CASE f = "all" -> TRUE
          [] f = "receipt" -> r.sheet = "movements" /\ r.type = "receipt"
          [] f = "issue" -> r.sheet = "movements" /\ r.type = "issue"
          [] OTHER -> r.sheet = f))

Count(seq, x) == Cardinality({i \in DOMAIN seq : seq[i] = x})

\* recs are `limit` most recent of the records all, latest first
MostRecent(recs, all, limit) ==
    /\ Len(recs) = (IF Len(all) < limit THEN Len(all) ELSE limit)
    /\ \A i \in DOMAIN recs : Count(recs, recs[i]) <= Count(all, recs[i])
    /\ \A i, j \in DOMAIN recs : i < j => ~Later(recs[j], recs[i])
    /\ \A i \in DOMAIN recs :
           Cardinality({j \in DOMAIN all : Later(all[j], recs[i])}) < limit

\* C13: get_history(filter, period, limit) returns only records of the
\* filter (issues for 'issue', receipts for 'receipt'), latest date and time
\* first, at most limit of them, and those are the most recent ones; the
\* history reply shows the records in that order, at most 10.
C13_HistoryMostRecent ==
    /\ turn.handler = "get_history"
       => /\ MostRecent(turn.shown, Matching(turn.upd.filter), turn.upd.limit)
          /\ turn.upd.filter \in {"issue", "receipt"}
             => \A i \in DOMAIN turn.shown : turn.shown[i].type = turn.upd.filter
    /\ (turn.handler = "handle_history_period" /\ turn.reply \in {"history", "history_empty"})
       => /\ Len(turn.shown) <= HISTORY_LIMIT
          /\ \A i, j \in DOMAIN turn.shown : i < j => ~Later(turn.shown[j], turn.shown[i])
          /\ \E f \in {"all", "issue"} : MostRecent(turn.shown, Matching(f), HISTORY_LIMIT)

\* C13 witness: three issues and receipts are stored, written at different
\* moments and not in order of time; the 'issue' filter with limit 1
\* returns the latest issue although an earlier issue and a receipt exist.
C13_Witness ==
    /\ turn.handler = "get_history" /\ turn.upd.filter = "issue" /\ turn.upd.limit = 1
    /\ Len(Matching("issue")) = 2 /\ Len(Matching("receipt")) = 1
    /\ Later(Matching("issue")[2], Matching("issue")[1])
    /\ turn.shown = <<Matching("issue")[2]>>

\* the workflow a non-idle state belongs to, as the modes of its draft
ModesOf(st) ==
    CASE st \in {"SELECT_COUNTERPARTY"} -> {"receipt"}
      [] st \in {"SELECT_PLACE"} -> {"issue"}
      [] st \in {"POSITION_PHOTOS", "POSITION_QTY", "OPERATION_SUMMARY",
                 "OPERATION_GENERAL_COMMENT"} -> {"receipt", "issue"}
      [] st \in {"NEW_PRODUCT_PHOTOS", "NEW_PRODUCT_COMMENT", "NEW_PRODUCT_TYPE"}
           -> {"new_product"}
      [] st \in DocumentStates -> {"documents"}
      [] st \in VehicleStates -> {"vehicles"}
      [] OTHER -> {"invoice"}

WorkflowStates == WarehouseStates \cup DocumentStates \cup VehicleStates \cup InvoiceStates

\* the fields only the invoice draft has
InvoiceFields == {"filename", "file_path"}

\* C14: in a state of a workflow the session holds that workflow's draft:
\* user_data is not cleared, its mode is the workflow of the state, and it
\* has invoice fields only in the invoice workflow.
C14_OneDraftPerState ==
    \A u \in Users :
        state[u] \in WorkflowStates
        => /\ user_data[u] # EmptyUD
           /\ user_data[u].mode \in ModesOf(state[u])
           /\ state[u] \notin InvoiceStates => user_data[u].has \cap InvoiceFields = {}

\* C15: a step that is not a finalize and leaves a user's non-empty
\* user_data empty leaves none of the files that user_data referred to
\* (temp photos of the draft, of its current and stored positions, and the
\* staged invoice file) in the staging directory.
C15_TeardownDeletesFiles ==
    [][\A u \in Users :
          (user_data[u] # EmptyUD /\ user_data'[u] = EmptyUD /\ ~IsFinalize(turn'))
          => DraftFiles(user_data[u]) \cap disk' = {}]_vars

\* C16: a /start or /menu command processed in a conversation state leaves
\* user_data empty and none of the files the draft referred to on disk, and
\* leaves a registered user in MAIN_MENU.
C16_StartTearsDown ==
    [][\A u \in Users :
          (turn'.user = u /\ turn'.handler \in {"start", "cmd_menu"} /\ state[u] # END)
          => /\ user_data'[u] = EmptyUD
             /\ DraftFiles(user_data[u]) \cap disk' = {}
             /\ is_registered(u) => state'[u] = "MAIN_MENU"]_vars

\* the invocations of user u that are in flight
InFlight(u) == {i \in DOMAIN inflight : inflight[i].user = u}

\* C17: at any time at most one handler invocation of a user is in flight,
\* and while a user's save is in flight no other invocation of that user is.
C17_OneActionPerUser ==
    \A u \in Senders :
        /\ Cardinality(InFlight(u)) <= 1
        /\ \A i \in InFlight(u) :
               inflight[i].phase = "saving" => InFlight(u) = {i}

\* C17 witness: a save of user 1 is in flight while the next update of the
\* same user waits in the queue.
C17_Witness ==
    /\ \E i \in DOMAIN inflight : inflight[i].user = 1 /\ inflight[i].phase = "saving"
    /\ queue # <<>> /\ queue[1].user = 1

\* the last turn was /reload or /cleanup of u
AdminCommand(t, u) == t.user = u /\ t.handler \in {"cmd_reload", "cmd_cleanup"}

\* C18: /reload and /cleanup of a user whose admin flag is FALSE or empty
\* (or who is not in the user table) are refused, and the staging directory
\* is as it was before the command.
C18_AdminOnly ==
    [][\A u \in Users :
          (AdminCommand(turn', u) /\ FlagOff(u, "admin"))
          => turn'.reply = "admin_only" /\ disk' = disk]_vars

\* the texts a state with a closed list of choices offers
Choices(st) ==
    CASE st = "MAIN_MENU" -> Values(MENU)
      [] st = "VEHICLE_OP_TYPE" -> {BTN.cancel} \cup Values(VEHICLE_OPS)
      [] st = "OPERATION_SUMMARY" -> {BTN.cancel, BTN.next_position, BTN.finish}
      [] st = "NEW_PRODUCT_TYPE" -> {BTN.cancel} \cup Values(PRODUCT_TYPES)
      [] st = "DOC_TYPE" -> {BTN.cancel} \cup Values(DOCUMENT_TYPES)
      [] st = "HISTORY_FILTER" -> {BTN.cancel} \cup Values(HISTORY_FILTERS)
      [] st = "HISTORY_PERIOD" -> {BTN.cancel} \cup Values(HISTORY_PERIODS)
      [] st \in PhotoStates -> {BTN.cancel, BTN.photo_done}
      [] OTHER -> {BTN.cancel, BTN.qty_custom}

ChoiceStates == {"MAIN_MENU", "VEHICLE_OP_TYPE", "OPERATION_SUMMARY", "NEW_PRODUCT_TYPE",
                 "DOC_TYPE", "HISTORY_FILTER", "HISTORY_PERIOD", "POSITION_QTY"}
                \cup PhotoStates

\* a quantity text whose digits give a quantity of 1..MAX_QUANTITY
GoodQuantity(text) ==
    LET clean == clean_digits(strip(text))
    IN  clean # <<>> /\ int(clean) \in 1..MAX_QUANTITY

\* the turn's input is one its state does not recognize: a text that is
\* none of the choices of a state with a closed list (nor a quantity in
\* POSITION_QTY), or a message of a kind the state has no handler for
Unrecognized(t) ==
    \/ t.handler = "global_fallback"
    \/ t.handler = "handle_document_file" /\ t.prev # "MAIN_MENU"
    \/ /\ t.upd.kind = "text" /\ t.prev \in ChoiceStates
       /\ t.upd.text \notin Choices(t.prev)
       /\ t.prev = "POSITION_QTY" => ~GoodQuantity(t.upd.text)

\* C19: after a turn whose input the state did not recognize, the user is
\* in the state the turn began in.
C19_UnrecognizedStays ==
    \A u \in Users :
        (turn.user = u /\ Unrecognized(turn)) => state[u] = turn.prev

\* C20: the Operation_ID of the rows a save appends is the Operation_ID of
\* no row an earlier save has stored.
C20_OperationIdUnique ==
    [][\A i \in DOMAIN turn'.calls :
          turn'.calls[i].row.sheet = "movements"
          => \A j \in DOMAIN store : store[j].op_id # turn'.calls[i].row.op_id]_vars

\* the upload calls of the turn in which an upload raised
FailedUploads(t) == {k \in DOMAIN t.uploads : t.uploads[k].result = "error"}

\* C21: when an upload of the photos of a position fails during the save of
\* a movement, the row of that position is still handed to the Record Store,
\* with every photo column empty, it is stored when the append succeeds, and
\* the user ends in the main menu; a photo that could not be uploaded has
\* an empty link in the row.
C21_UploadFailureNonFatal ==
    \A u \in Users :
        (turn.user = u /\ turn.handler = "handle_general_comment"
                      /\ turn.uploads # <<>>)
        => /\ state[u] = "MAIN_MENU"
           /\ \A k \in DOMAIN turn.uploads :
                 \E i \in DOMAIN turn.calls :
                    LET c == turn.calls[i]
                        up == turn.uploads[k]
                    IN  /\ c.row.pos = up.pos
                        /\ up.result = "error" => c.row.links = <<>>
                        /\ up.result = "ok"
                           => /\ Len(c.row.links) = Len(up.paths)
                              /\ \A j \in DOMAIN up.paths :
                                    c.row.links[j] \in {"", Link(up.paths[j])}
                        /\ c.result = "ok"
                           => \E j \in DOMAIN store : store[j].op_id = c.row.op_id

\* a save in which the upload of a position's photos failed and its row
\* was stored without links
C21_Witness ==
    /\ turn.handler = "handle_general_comment"
    /\ state[turn.user] = "MAIN_MENU"
    /\ \E k \in FailedUploads(turn) : \E i \in DOMAIN turn.calls :
          /\ turn.uploads[k].paths # <<>>
          /\ turn.calls[i].row.pos = turn.uploads[k].pos
          /\ turn.calls[i].row.links = <<>>
          /\ turn.calls[i].result = "ok"
          /\ \E j \in DOMAIN store : store[j].op_id = turn.calls[i].row.op_id

\* C22: after a turn that ran a finalize, none of the files the draft had
\* staged is left in the staging directory.
C22_FinalizeLeavesNoStagedFile ==
    [][\A u \in Users :
          (turn'.user = u /\ IsFinalize(turn'))
          => DraftFiles(user_data[u]) \cap disk' = {}]_vars

\* the appends of a turn that the Record Store accepted
Accepted(cs) == {i \in DOMAIN cs : cs[i].result = "ok"}

\* C23: only a finalize calls the Record Store; the save of a movement
\* makes at most one append per position of the draft, in the order of the
\* positions, and every other finalize at most one append; the store grows
\* by exactly the accepted appends; and the draft is gone after the finalize,
\* so that no later turn can append it again.
C23_OneAppendPerRecord ==
    [][\A u \in Users :
          turn'.user = u
          => LET cs == turn'.calls
                 ps == user_data[u].positions
             IN  /\ ~IsFinalize(turn') => cs = <<>>
                 /\ IsFinalize(turn') => user_data'[u] = EmptyUD
                 /\ turn'.handler = "handle_general_comment"
                    => /\ Len(cs) <= Len(ps)
                       /\ \A i \in DOMAIN cs : cs[i].row.pos = ps[i].number
                 /\ turn'.handler # "handle_general_comment" => Len(cs) <= 1
                 /\ Len(store') = Len(store) + Cardinality(Accepted(cs))]_vars

\* a movement of two positions was saved by two appends, the first of which
\* the Record Store refused and nobody repeated
C23_Witness ==
    /\ turn.handler = "handle_general_comment"
    /\ Len(turn.calls) = 2
    /\ turn.calls[1].result = "fail" /\ turn.calls[2].result = "ok"
    /\ turn.calls[1].row.pos = 1 /\ turn.calls[2].row.pos = 2
    /\ Cardinality({j \in DOMAIN store : store[j].op_id = turn.calls[1].row.op_id}) = 1
    /\ user_data[turn.user] = EmptyUD

\* C24: the staged files of the drafts of two users are different files.
C24_StagedPathsUnique ==
    \A u, v \in Users :
        u # v => DraftFiles(user_data[u]) \cap DraftFiles(user_data[v]) = {}

\* C25: every record a call of get_history for the period 'today' returns
\* is dated today.
C25_HistoryWithinPeriod ==
    (turn.handler = "get_history" /\ turn.upd.period = "today")
    => \A i \in DOMAIN turn.shown : turn.shown[i].date = strftime_date(Now(clock))

\* C26: in the state force_refresh returns in, the users, counterparties
\* and places of the PermissionsManager are those of the tables as they are
\* now, and the counts it returned are their sizes.
C26_ForceRefreshReloads ==
    turn.handler = "force_refresh"
    => /\ refs.users = load_all
       /\ refs.counterparties = active_rows(refs.tables.counterparties)
       /\ refs.places = active_rows(refs.tables.places)
       /\ refs.stats = [counterparties |-> Len(refs.counterparties),
                        places |-> Len(refs.places),
                        users |-> Cardinality(DOMAIN refs.users)]

\* the positions of a draft are numbered 1, 2, ... in the order they are
\* stored in, and in the states that collect a position the position being
\* collected has the next number
Numbered(ud, st) ==
    /\ \A i \in DOMAIN ud.positions : ud.positions[i].number = i
    /\ (st \in {"POSITION_PHOTOS", "POSITION_QTY"} /\ Has(ud, "current_position"))
       => ud.current_position.number = Len(ud.positions) + 1

UploadedPhotos(t) ==
    {bk \in (DOMAIN t.uploads) \X (1..MAX_PHOTOS_PER_POSITION) :
        bk[2] \in DOMAIN t.uploads[bk[1]].paths}

\* C28: in the save of a movement, the photos of each position are uploaded
\* in the order they were captured in, positions in their order; the k-th
\* photo of position p gets a name made of the Operation_ID of the rows,
\* the number p and the index k; and any two photos of the save get
\* different names.
C28_UploadNames ==
    [][\A u \in Users :
          (turn'.user = u /\ turn'.handler = "handle_general_comment")
          => LET ups == turn'.uploads
                 ps == user_data[u].positions
             IN  /\ \A b \in DOMAIN ups :
                       /\ ups[b].pos \in DOMAIN ps
                       /\ ups[b].paths = ps[ups[b].pos].temp_photos
                       /\ b > 1 => ups[b].pos > ups[b - 1].pos
                       /\ \A k \in DOMAIN ups[b].paths :
                             /\ \E i \in DOMAIN turn'.calls :
                                   ups[b].names[k][1] = turn'.calls[i].row.op_id
                             /\ ups[b].names[k][2] = <<"P">> \o pad2(ups[b].pos)
                             /\ ups[b].names[k][3] = <<"F">> \o pad2(k)
                 /\ \A x, y \in UploadedPhotos(turn') :
                       x # y => ups[x[1]].names[x[2]] # ups[y[1]].names[y[2]]]_vars

\* a save uploaded two photos of position 1 and one photo of position 2
C28_Witness ==
    /\ turn.handler = "handle_general_comment"
    /\ Len(turn.uploads) = 2
    /\ turn.uploads[1].pos = 1 /\ Len(turn.uploads[1].paths) = 2
    /\ turn.uploads[2].pos = 2 /\ Len(turn.uploads[2].paths) = 1
    /\ turn.uploads[1].result = "ok" /\ turn.uploads[2].result = "ok"

\* the states of the receipt / issue workflow
MovementStates == {"SELECT_COUNTERPARTY", "SELECT_PLACE", "POSITION_PHOTOS",
                   "POSITION_QTY", "OPERATION_SUMMARY", "OPERATION_GENERAL_COMMENT"}

\* the state table of the movement workflow: the states a state may change to
MovementTable(st) ==
    CASE st \in Idle -> Idle \cup {"SELECT_COUNTERPARTY", "SELECT_PLACE"}
      [] st \in {"SELECT_COUNTERPARTY", "SELECT_PLACE"} -> Idle \cup {"POSITION_PHOTOS"}
      [] st = "POSITION_PHOTOS" -> Idle \cup {"POSITION_QTY"}
      [] st = "POSITION_QTY" -> Idle \cup {"OPERATION_SUMMARY", "OPERATION_GENERAL_COMMENT"}
      [] st = "OPERATION_SUMMARY" -> Idle \cup {"POSITION_PHOTOS", "OPERATION_GENERAL_COMMENT"}
      [] st = "OPERATION_GENERAL_COMMENT" -> Idle
      [] OTHER -> {}

\* C29: a turn that changes a user's state from or to a state of the
\* movement workflow follows the state table; the quantity leads straight
\* to the general comment only when the draft is full; and rows of the
\* movements sheet are appended only by the turn that leaves the general
\* comment for the main menu through the save.
C29_MovementTable ==
    [][\A u \in Users :
          /\ (state'[u] # state[u]
               /\ (state[u] \in MovementStates \/ state'[u] \in MovementStates))
             => state'[u] \in MovementTable(state[u])
          /\ (state[u] = "POSITION_QTY" /\ state'[u] = "OPERATION_GENERAL_COMMENT")
             => Len(user_data'[u].positions) >= MAX_POSITIONS_PER_OPERATION
          /\ (turn'.user = u
               /\ \E i \in DOMAIN turn'.calls : turn'.calls[i].row.sheet = "movements")
             => /\ state[u] = "OPERATION_GENERAL_COMMENT"
                /\ turn'.handler = "handle_general_comment"
                /\ IsFinalize(turn')
                /\ state'[u] = "MAIN_MENU"]_vars

\* the quantity that filled the draft has led to the general comment
C29_Witness ==
    \E u \in Users :
        /\ turn.user = u /\ turn.handler = "handle_quantity"
        /\ turn.prev = "POSITION_QTY"
        /\ state[u] = "OPERATION_GENERAL_COMMENT"
        /\ Len(user_data[u].positions) = MAX_POSITIONS_PER_OPERATION

\* the text without the sign a displayed choice begins with
WithoutPrefix(text) ==
    IF StartsWith(text, FACTORY) THEN SubSeq(text, Len(FACTORY) + 1, Len(text))
    ELSE IF StartsWith(text, PIN) THEN SubSeq(text, Len(PIN) + 1, Len(text))
    ELSE text

\* C30: in SELECT_COUNTERPARTY, 'other' leaves the user in the state with no
\* counterparty in the draft; any other text that is not 'cancel' becomes
\* the draft's counterparty as it was sent, less the sign a displayed choice
\* begins with, and the user collects the photos of position 1.
C30_OtherCounterparty ==
    \A u \in Users :
        (turn.user = u /\ turn.handler = "handle_counterparty_selection"
                      /\ turn.upd.text # BTN.cancel)
        => IF turn.upd.text = BTN.counterparty_other
           THEN state[u] = "SELECT_COUNTERPARTY" /\ ~Has(user_data[u], "counterparty")
           ELSE /\ state[u] = "POSITION_PHOTOS"
                /\ Has(user_data[u], "counterparty")
                /\ user_data[u].counterparty = WithoutPrefix(turn.upd.text)
                /\ user_data[u].current_position.number = 1

\* C31: a turn whose input a state other than the idle ones does not
\* recognize leaves the user's draft as it was, and the staged files of the
\* draft that were on disk are still there.
C31_RejectedInputKeepsDraft ==
    [][\A u \in Users :
          (turn'.user = u /\ Unrecognized(turn') /\ state[u] \notin Idle)
          => /\ user_data'[u] = user_data[u]
             /\ DraftFiles(user_data[u]) \cap disk \subseteq disk']_vars

\* C32: every staged file a user's draft refers to is on disk.
C32_StagedFilesStay ==
    \A u \in Users : DraftFiles(user_data[u]) \subseteq disk

\* C33: a refresh in which the read of a table failed leaves what the
\* PermissionsManager held of that table as it was.
C33_FailedReadKeepsCache ==
    [][turn'.handler \in {"force_refresh", "refresh_if_needed"}
       => /\ turn'.upd["users"] = "error" => refs'.users = refs.users
          /\ turn'.upd["counterparties"] = "error"
             => refs'.counterparties = refs.counterparties
          /\ turn'.upd["places"] = "error" => refs'.places = refs.places]_vars

\* C34: no two vehicle rows of one day carry the same auto-generated id.
C34_AutoIdsDistinct ==
    \A i, j \in DOMAIN store :
        (/\ i # j
         /\ store[i].sheet = "vehicles" /\ store[j].sheet = "vehicles"
         /\ store[i].date = store[j].date
         /\ Len(store[i].target) > 0 /\ store[i].target[1] = "vehicle#")
        => store[i].target # store[j].target

\* C35: a document sent in MAIN_MENU by a user who is not in the user table
\* or whose invoices cell is FALSE or empty, or a document whose extension is
\* not xlsx, xls or pdf, leaves the user in MAIN_MENU, the staging directory
\* and the draft as they were.
C35_DocumentGate ==
    [][\A u \in Users :
          (/\ turn'.user = u /\ turn'.handler = "handle_document_file"
           /\ state[u] = "MAIN_MENU"
           /\ \/ FlagOff(u, "invoices")
              \/ Extension(turn'.upd.file) \notin {<<"x", "l", "s", "x">>,
                                                  <<"x", "l", "s">>, <<"p", "d", "f">>})
          => /\ state'[u] = "MAIN_MENU"
             /\ disk' = disk
             /\ user_data'[u] = user_data[u]]_vars

====
